---- MODULE Spec2Model ----
(***************************************************************************)
(* The job registry and the two job runners of the document generator     *)
(* (docmaker server): createJob, pauseJob, resumeJob, waitIfPaused,        *)
(* cleanupJobs, runGenerateJob, runSendJob and the /jobs/:id routes.       *)
(*                                                                         *)
(* Node runs every callback to completion and drains the promise           *)
(* (microtask) queue before it takes the next request, timer or I/O        *)
(* completion.  A runner position that is continued by a microtask is a    *)
(* "micro" pc; every request, timer and I/O completion is guarded by       *)
(* MicroIdle, which says that no runner has a microtask pending.           *)
(*                                                                         *)
(* Time is counted in units of JOB_TTL_MS (30 minutes).                    *)
(***************************************************************************)
EXTENDS Integers, Sequences, FiniteSets, TLC

\* ---------------------------------------------------------------- bounds
MaxRows == 2            \* rows of a dataset: 0..MaxRows
MaxTime == 2            \* the clock stops advancing at MaxTime
MaxDataRows == 3        \* rows of the dataset whose contents are followed
MaxQueue == 3           \* recipients of the queue whose dispatch is followed
MaxEntries == 3         \* entries of the mapping whose resolution is followed
MaxTags == 2            \* markup tags inserted into a template

\* ------------------------------------------------------------- constants
JOB_TTL_MS == 1         \* retention window, in units of 30 minutes

\* ids createJobId hands out in a run of the model.  Every definition below is
\* written for a set of ids (JobIds, the ids a run starts with); one id keeps
\* the state space of the full runner (rows, pause signal, dispatch, clock)
\* within reach of an exhaustive search, two ids show the jobs side by side.
OneJob == {1}
TwoJobs == {1, 2}
Addrs == {"a@x.io", "b@x.io"} \* recipient keys (lower-cased addresses) a row can name
PromiseIds == {1, 2, 3} \* names of the live promise objects of one job
Types == {"generate", "send"}

VARIABLES
  jobs,      \* the registry: ids present in the Map `jobs`
  job,       \* id -> the job object (it outlives its registry entry in the runner's closure)
  pc,        \* id -> position of the job's runner
  cont,      \* id -> where the runner continues after waitIfPaused
  idx,       \* id -> loop variable idx of the row loop
  awaiting,  \* id -> promise the runner awaits in waitIfPaused (0: none)
  settled,   \* id -> promises of the job that have been resolved
  rowRcpt,   \* id -> uniqueRecipients of the row in flight
  locals,    \* id -> the runner's local accumulators
  now,       \* Date.now()
  resp,      \* the last HTTP response
  started,   \* history: id -> row numbers whose loop body began, in order
  finished,  \* history: id -> row numbers whose loop body ended, in order
  pauseCur,  \* history: id -> job.current when the latest pause was accepted
  pauseBusy, \* history: id -> a row was in flight when the latest pause was accepted
  swept      \* history: cleanupJobs has run since the clock last advanced

\* The contents of what a job produces are followed separately from the job
\* registry, on one document, one dataset or one queue at a time:
VARIABLES
  platform,  \* process.platform
  produces,  \* docxBufferToPdf: backend -> what the backend yields for the document
  chainPc,   \* docxBufferToPdf: the backend awaited, "returned" or "rejected"
  pdfBuffer  \* the value docxBufferToPdf returned

VARIABLES
  loopType,  \* the runner whose row loop is followed: "generate" or "send"
  rows,      \* the rows of the dataset the loop has processed, in order
  usedNames, \* runGenerateJob: usedNames
  zipDocx,   \* runGenerateJob: zipDocx, entry name -> row whose document it holds
  zipPdf,    \* runGenerateJob: zipPdf, entry name -> row whose PDF it holds
  emailQueue,            \* emailQueue, in insertion order
  usedNamesByRecipient,  \* usedNamesByRecipient, key -> names
  outcome    \* where the loop has left the job: "running", "done", "dispatch", "error"

VARIABLES
  emailMode,   \* the transport of the dispatch followed: "smtp" or "outlook"
  smtpOptions, \* sendEmailsSmtp: buildSmtpOptions returned options (not null)
  queue,       \* the queue handed to the dispatcher
  sendPc,      \* the dispatcher: "idle", "called", what it awaits, "returned", "rejected"
  cursor,      \* the item of the queue the loop (of Node, of the script) is at
  sent,        \* sendEmailsSmtp: sent
  processed,   \* sendEmailsSmtp: processed
  errors,      \* sendEmailsSmtp: errors
  results,     \* sendEmailsSmtp: results
  report,      \* sendEmailsOutlook: $report of the script
  result,      \* the value the dispatcher returned
  reports,     \* history: the arguments of the onProgress calls, in order
  attempts,    \* history: item -> number of send calls made for it
  inFlight,    \* history: items with a send call that has not settled
  refused      \* history: items whose send call failed

VARIABLES
  mapping,     \* resolveRowValues: the mapping
  rowData,     \* resolveRowValues: the row, column -> cell
  values,      \* resolveRowValues: the object returned, key -> text
  resolvePc    \* resolveRowValues: "idle", "called" or "returned"

VARIABLES
  untagged,    \* a template's markup (word/document.xml) before tags were inserted
  template,    \* the markup of the template given to the server
  cleaned,     \* sanitizeTemplateBuffer: the markup it writes back
  again,       \* the markup sanitizeTemplateBuffer writes for its own output
  placeholders,\* extractPlaceholders: the names returned, in order
  templatePc   \* "idle", "uploaded", "sanitized", "resanitized" or "extracted"

VARIABLES
  renderData,    \* runGenerateJob / runSendJob: Object.entries(data) of the row
  rendered,      \* the document renderDoc returned
  renderedAgain, \* the document renderDoc returned when called once more
  renderPc       \* "idle", "row", "data", "rendered" or "rendered twice"

serverVars == <<jobs, job, pc, cont, idx, awaiting, settled, rowRcpt, locals, now, resp,
                started, finished, pauseCur, pauseBusy, swept>>
chainVars == <<platform, produces, chainPc, pdfBuffer>>
loopVars == <<loopType, rows, usedNames, zipDocx, zipPdf, emailQueue,
              usedNamesByRecipient, outcome>>
sendVars == <<emailMode, smtpOptions, queue, sendPc, cursor, sent, processed, errors,
              results, report, result, reports, attempts, inFlight, refused>>
resolveVars == <<mapping, rowData, values, resolvePc>>
templateVars == <<untagged, template, cleaned, again, placeholders, templatePc>>
renderVars == <<renderData, rendered, renderedAgain, renderPc>>
docVars == <<resolveVars, templateVars, renderVars>>
dataVars == <<chainVars, loopVars, sendVars, docVars>>

\* what the conversion chain leaves alone
offChain == <<serverVars, loopVars, sendVars, docVars>>
\* what the row loop leaves alone
offLoop == <<serverVars, chainVars, sendVars, docVars>>
\* what a dispatcher leaves alone, the platform apart
offSend == <<serverVars, produces, chainPc, pdfBuffer, loopVars, docVars>>
\* what the resolver leaves alone
offResolve == <<serverVars, chainVars, loopVars, sendVars, templateVars, renderVars>>
\* what the sanitizer and the extractor leave alone
offTemplate == <<serverVars, chainVars, loopVars, sendVars, resolveVars, renderVars>>
\* what the renderer leaves alone
offRender == <<serverVars, chainVars, loopVars, sendVars>>

vars == <<serverVars, dataVars>>

runnerVars == <<pc, cont, idx, awaiting, settled, rowRcpt, locals>>
histVars == <<started, finished, pauseCur, pauseBusy, swept>>

\* ------------------------------------------------------------ job object
NoResult == [kind |-> "null", docs |-> 0, pdfs |-> 0, pdfGenerated |-> FALSE,
             sent |-> 0, failed |-> 0]

\* createJob: the object literal, created at time t (id is the index of `job`;
\* createdAt is written here and nowhere read or written again, and is left out)
JobObject(type, t) ==
  [type |-> type, status |-> "running", total |-> 0, current |-> 0,
   message |-> "", error |-> "",
   emailTotal |-> 0, emailSent |-> 0, emailFailed |-> 0,
   paused |-> FALSE, pausePromise |-> 0, resume |-> 0,
   result |-> NoResult, updatedAt |-> t]

\* createJob
NewJob(type) == JobObject(type, now)

\* the slot of an id that createJobId has not handed out yet
NoJob == [JobObject("none", 0) EXCEPT !.status = "none"]

NoLocals == [zipDocx |-> 0, zipPdf |-> 0, emailQueue |-> {},
             pdfFailures |-> 0, recipientCount |-> 0,
             mode |-> "none", processed |-> 0, sent |-> 0]


\* mutant of touchJob: updatedAt is left as it is
touchJob_Stale(jb) == jb

\* touchJob
touchJob(jb) == [jb EXCEPT !.updatedAt = now]

\* a promise object not referenced by the job or its runner
NewPromise(j) ==
  CHOOSE p \in PromiseIds : p \notin {job[j].pausePromise, job[j].resume, awaiting[j]}

\* ------------------------------------------------- the conversion chain
\* a Buffer is its bytes; null is no buffer
Buffer(bytes) == [isNull |-> FALSE, bytes |-> bytes]
Null == [isNull |-> TRUE, bytes |-> <<>>]

\* files a backend can leave behind: none of length zero, one of three bytes,
\* a web page, and two that begin with the PDF signature
Files ==
  { <<>>,
    <<"%", "P", "D">>,
    <<"<", "h", "t", "m", "l", ">">>,
    <<"%", "P", "D", "F">>,
    <<"%", "P", "D", "F", "-", "1">> }

\* what a backend yields for a document: it throws (or leaves no file), or
\* it leaves a file
Thrown == [threw |-> TRUE, bytes |-> <<>>]
Yields == {Thrown} \cup {[threw |-> FALSE, bytes |-> f] : f \in Files}

Backends == {"msoffice", "libreoffice", "puppeteer"}
Platforms == {"win32", "linux"}

\* isPdfBuffer
isPdfBuffer(buffer) ==
  IF buffer.isNull THEN FALSE
  ELSE IF Len(buffer.bytes) < 4 THEN FALSE
  ELSE SubSeq(buffer.bytes, 1, 4) = <<"%", "P", "D", "F">>

\* `pdf.length ? pdf : null` / `pdf && pdf.length ? pdf : null`
NonEmptyOrNull(y) ==
  IF y.threw \/ Len(y.bytes) = 0 THEN Null ELSE Buffer(y.bytes)

\* convertWithMsOffice: null off Windows, on an exception, without an output
\* file or with an empty one
convertWithMsOffice(os, y) == IF os # "win32" THEN Null ELSE NonEmptyOrNull(y)

\* convertWithLibreOffice: null on an exception or an empty result
convertWithLibreOffice(y) == NonEmptyOrNull(y)

\* convertWithPuppeteer: null on an exception, else what page.pdf returned
convertWithPuppeteer(y) == IF y.threw THEN Null ELSE Buffer(y.bytes)

\* what the backend returns to docxBufferToPdf
Returned(b) ==
  IF b = "msoffice" THEN convertWithMsOffice(platform, produces[b])
  ELSE IF b = "libreoffice" THEN convertWithLibreOffice(produces[b])
  ELSE convertWithPuppeteer(produces[b])

\* `if (msOfficePdf)`, `if (pdf)`: a Buffer object is truthy, null is not
Truthy(buffer) == ~buffer.isNull

\* docxBufferToPdf: await convertWithMsOffice; return it if truthy.  On Windows
\* the backend makes its temporary directory before its try block: when
\* fs.mkdtempSync throws, the promise awaited here is rejected, and so is the
\* promise of docxBufferToPdf
AwaitMsOffice ==
  /\ chainPc = "msoffice"
  /\ \/ IF Truthy(Returned("msoffice"))
        THEN chainPc' = "returned" /\ pdfBuffer' = Returned("msoffice")
        ELSE chainPc' = "libreoffice" /\ UNCHANGED pdfBuffer
     \/ /\ platform = "win32"
        /\ chainPc' = "rejected"
        /\ UNCHANGED pdfBuffer
  /\ UNCHANGED <<platform, produces, offChain>>

\* docxBufferToPdf: await convertWithLibreOffice; return it if truthy
AwaitLibreOffice ==
  /\ chainPc = "libreoffice"
  /\ IF Truthy(Returned("libreoffice"))
     THEN chainPc' = "returned" /\ pdfBuffer' = Returned("libreoffice")
     ELSE chainPc' = "puppeteer" /\ UNCHANGED pdfBuffer
  /\ UNCHANGED <<platform, produces, offChain>>

\* docxBufferToPdf: return convertWithPuppeteer(buffer)
AwaitPuppeteer ==
  /\ chainPc = "puppeteer"
  /\ chainPc' = "returned"
  /\ pdfBuffer' = Returned("puppeteer")
  /\ UNCHANGED <<platform, produces, offChain>>

\* no document is being converted
ChainIdle ==
  /\ platform = "linux"
  /\ produces = [b \in Backends |-> Thrown]
  /\ chainPc = "returned"
  /\ pdfBuffer = Null

\* docxBufferToPdf is called on a document, on some platform, for which each
\* backend yields something
ChainInput ==
  /\ platform \in Platforms
  /\ produces \in [Backends -> Yields]
  /\ chainPc = "msoffice"
  /\ pdfBuffer = Null

\* ------------------------------------------------------- the row loop
\* A string is the sequence of its characters.
DotDocx == <<".", "d", "o", "c", "x">>
DotPdf == <<".", "p", "d", "f">>

\* String.prototype.toLowerCase, on the capitals that occur
Capitals == <<"A", "B", "C", "D", "F", "O", "P", "X">>
Smalls == <<"a", "b", "c", "d", "f", "o", "p", "x">>
toLowerChar(c) ==
  IF \E i \in 1..Len(Capitals) : Capitals[i] = c
  THEN Smalls[CHOOSE i \in 1..Len(Capitals) : Capitals[i] = c]
  ELSE c
toLowerCase(str) == [i \in 1..Len(str) |-> toLowerChar(str[i])]

\* String.prototype.endsWith
endsWith(str, end) ==
  Len(str) >= Len(end) /\ SubSeq(str, Len(str) - Len(end) + 1, Len(str)) = end

\* str.replace(/\.docx$/i, by), str.replace(/\.pdf$/i, by): ext is the
\* extension in small letters
replaceExt(str, ext, by) ==
  IF endsWith(toLowerCase(str), ext)
  THEN SubSeq(str, 1, Len(str) - Len(ext)) \o by
  ELSE str

\* `_${counter}`
Suffix(counter) == <<"_", ToString(counter)>>

\* String.prototype.trim
RECURSIVE trimStart(_)
trimStart(str) == IF str # <<>> /\ Head(str) = " " THEN trimStart(Tail(str)) ELSE str
RECURSIVE trimEnd(_)
trimEnd(str) ==
  IF str # <<>> /\ str[Len(str)] = " " THEN trimEnd(SubSeq(str, 1, Len(str) - 1)) ELSE str
trim(str) == trimEnd(trimStart(str))

\* sanitizeFilename
Arquivo == <<"a", "r", "q", "u", "i", "v", "o">>
Forbidden == {"\\", "/", ":", "*", "?", "\"", "<", ">", "|"}
sanitizeFilename(name) ==
  LET base == IF trim(IF name = <<>> THEN Arquivo ELSE name) = <<>>
              THEN Arquivo ELSE trim(IF name = <<>> THEN Arquivo ELSE name)
  IN  [i \in 1..Len(base) |-> IF base[i] \in Forbidden THEN "_" ELSE base[i]]

\* normalizePdfFilename
normalizePdfFilename(filename) ==
  LET base == sanitizeFilename(filename)
  IN  IF endsWith(toLowerCase(base), DotPdf) THEN base
      ELSE IF endsWith(toLowerCase(base), DotDocx) THEN replaceExt(base, DotDocx, DotPdf)
      ELSE base \o DotPdf


\* mutant of pdfValidOf: any buffer the chain returns counts as a PDF
pdfValidOf_Truthy(buffer) == Truthy(buffer)

\* the caller's test: pdfValid = pdfBuffer && isPdfBuffer(pdfBuffer)
pdfValidOf(buffer) == Truthy(buffer) /\ isPdfBuffer(buffer)

\* preparePdfAttachment; the buffer is known by the row it was made for
NoAttachment == [isNull |-> TRUE, filename |-> <<>>, row |-> 0]
preparePdfAttachment(filename, buffer, row) ==
  IF buffer.isNull \/ ~isPdfBuffer(buffer) THEN NoAttachment
  ELSE [isNull |-> FALSE, filename |-> normalizePdfFilename(filename), row |-> row]

\* `if (!filename.toLowerCase().endsWith(".docx")) filename += ".docx"`
withDocx(filename) ==
  IF endsWith(toLowerCase(filename), DotDocx) THEN filename ELSE filename \o DotDocx

\* `while (usedNames.has(finalName)) { finalName = filename.replace(...); counter += 1 }`
RECURSIVE nextFreeName(_, _, _)

\* mutant of nextFreeName: the counter is not advanced, the suffix is always _2
nextFreeName_Once(filename, counter, used) ==
  replaceExt(filename, DotDocx, Suffix(2) \o DotDocx)

nextFreeName(filename, counter, used) ==
  LET finalName == replaceExt(filename, DotDocx, Suffix(counter) \o DotDocx)
  IN  IF finalName \notin used THEN finalName
      ELSE nextFreeName(filename, counter + 1, used)

\* the name under which the row's document is stored
finalNameOf(filename, used) ==
  IF filename \notin used THEN filename ELSE nextFreeName(filename, 2, used)

\* a Map or Set-valued Map as a function on the keys it holds
Get(map, key, default) == IF key \in DOMAIN map THEN map[key] ELSE default
Put(map, key, value) ==
  [k \in DOMAIN map \cup {key} |-> IF k = key THEN value ELSE map[k]]
EmptyMap == [k \in {} |-> 0]

\* JSZip.file(name, data): one entry per name, the last one written
zipFile(zip, name, data) == Put(zip, name, data)

\* ensureUniqueAttachmentName: the loop that finds the name
RECURSIVE nextFreeAttachmentName(_, _, _)
nextFreeAttachmentName(base, counter, set) ==
  LET finalName == base \o Suffix(counter) \o DotPdf
  IN  IF toLowerCase(finalName) \notin set THEN finalName
      ELSE nextFreeAttachmentName(base, counter + 1, set)


\* mutant of ensureUniqueAttachmentName: one set of used names for all recipients
ensureUniqueAttachmentName_Shared(used, recipient, filename) ==
  LET key == toLowerCase(recipient)
      set == UNION {used[k] : k \in DOMAIN used}
  IN  IF key = <<>> THEN filename
      ELSE IF toLowerCase(filename) \notin set THEN filename
      ELSE nextFreeAttachmentName(replaceExt(filename, DotPdf, <<>>), 2, set)

\* ensureUniqueAttachmentName: the name returned
ensureUniqueAttachmentName(used, recipient, filename) ==
  LET key == toLowerCase(recipient)
      set == Get(used, key, {})
  IN  IF key = <<>> THEN filename
      ELSE IF toLowerCase(filename) \notin set THEN filename
      ELSE nextFreeAttachmentName(replaceExt(filename, DotPdf, <<>>), 2, set)

\* ensureUniqueAttachmentName: usedNamesByRecipient after the call
usedAfter(used, recipient, filename) ==
  LET key == toLowerCase(recipient)
  IN  IF key = <<>> THEN used
      ELSE Put(used, key,
               Get(used, key, {}) \cup
                 {toLowerCase(ensureUniqueAttachmentName(used, recipient, filename))})

\* position of the entry of `key` in a Map kept as a sequence of entries (0: none)
IndexOf(entries, key) ==
  IF \E i \in 1..Len(entries) : entries[i].key = key
  THEN CHOOSE i \in 1..Len(entries) : entries[i].key = key
  ELSE 0

\* queueEmailAttachment
queueEmailAttachment(map, recipient, attachment) ==
  LET key == toLowerCase(recipient)
      at == IndexOf(map, key)
  IN  IF key = <<>> THEN map
      ELSE IF at = 0
      THEN Append(map, [key |-> key, to |-> recipient, attachments |-> <<attachment>>])
      ELSE [map EXCEPT ![at].attachments = Append(@, attachment)]

\* new Map(recipients.map((addr) => [addr.toLowerCase(), addr])): a key keeps
\* the place of its first address and the spelling of its last
RECURSIVE addressMap(_, _)
addressMap(recipients, map) ==
  IF recipients = <<>> THEN map
  ELSE LET addr == Head(recipients)
           at == IndexOf(map, toLowerCase(addr))
       IN  addressMap(Tail(recipients),
             IF at = 0 THEN Append(map, [key |-> toLowerCase(addr), addr |-> addr])
             ELSE [map EXCEPT ![at].addr = addr])


\* mutant of uniqueRecipients: the addresses of the row as parsed
uniqueRecipients_AsParsed(recipients) == recipients

\* uniqueRecipients = Array.from(new Map(...).values())
uniqueRecipients(recipients) ==
  LET map == addressMap(recipients, <<>>)
  IN  [i \in 1..Len(map) |-> map[i].addr]

\* uniqueRecipients.forEach: each recipient gets the attachment under a name
\* unused for that recipient; q is [used |-> usedNamesByRecipient, queue |-> emailQueue]
RECURSIVE queueForAll(_, _, _)
queueForAll(recipients, attachment, q) ==
  IF recipients = <<>> \/ attachment.isNull THEN q
  ELSE LET recipient == Head(recipients)
           uniqueName == ensureUniqueAttachmentName(q.used, recipient, attachment.filename)
       IN  queueForAll(Tail(recipients), attachment,
             [used |-> usedAfter(q.used, recipient, attachment.filename),
              queue |-> queueEmailAttachment(q.queue, recipient,
                          [filename |-> uniqueName, row |-> attachment.row])])

\* what a row gives the loop: the name the name template evaluates to, the
\* addresses parseRecipients finds in the email column, and what
\* docxBufferToPdf returns for the row's document
FileNames ==
  { <<"a", ".", "d", "o", "c", "x">>,
    <<"a", "_", "2">>,
    <<"A", ".", "D", "O", "C", "X">> }
RecipientLists ==
  { <<>>,
    << <<"A", "@", "x">>, <<"a", "@", "x">> >>,
    << <<"b", "@", "x">>, <<"a", "@", "x">> >> }
Conversions ==
  { Null, Buffer(<<"<", "h", "t", "m", "l", ">">>), Buffer(<<"%", "P", "D", "F", "-", "1">>) }
RowInputs == [filename : FileNames, recipients : RecipientLists, pdfBuffer : Conversions]

\* one iteration of the loop of runGenerateJob on the next row of the dataset;
\* its awaits give way only to code that does not touch the runner's locals
GenerateRow(r) ==
  /\ loopType = "generate" /\ outcome = "running"
  /\ Len(rows) < MaxDataRows
  /\ LET row == Len(rows) + 1
         finalName == finalNameOf(withDocx(r.filename), usedNames)
         pdfName == replaceExt(finalName, DotDocx, DotPdf)
         attachment == preparePdfAttachment(pdfName, r.pdfBuffer, row)
         q == queueForAll(uniqueRecipients(r.recipients), attachment,
                          [used |-> usedNamesByRecipient, queue |-> emailQueue])
     IN  /\ rows' = Append(rows, r)
         /\ usedNames' = usedNames \cup {finalName}
         /\ zipDocx' = zipFile(zipDocx, finalName, row)
         /\ zipPdf' = IF pdfValidOf(r.pdfBuffer) THEN zipFile(zipPdf, pdfName, row) ELSE zipPdf
         /\ IF pdfValidOf(r.pdfBuffer)
            THEN emailQueue' = q.queue /\ usedNamesByRecipient' = q.used
            ELSE UNCHANGED <<emailQueue, usedNamesByRecipient>>
  /\ UNCHANGED <<loopType, outcome, offLoop>>

\* one iteration of the loop of runSendJob on the next row of the dataset
SendRow(r) ==
  /\ loopType = "send" /\ outcome = "running"
  /\ Len(rows) < MaxDataRows
  /\ LET row == Len(rows) + 1
         attachName == replaceExt(withDocx(r.filename), DotDocx, DotPdf)
         attachment == preparePdfAttachment(attachName, r.pdfBuffer, row)
         q == queueForAll(uniqueRecipients(r.recipients), attachment,
                          [used |-> usedNamesByRecipient, queue |-> emailQueue])
     IN  /\ rows' = Append(rows, r)
         /\ IF uniqueRecipients(r.recipients) # <<>> /\ pdfValidOf(r.pdfBuffer)
            THEN emailQueue' = q.queue /\ usedNamesByRecipient' = q.used
            ELSE UNCHANGED <<emailQueue, usedNamesByRecipient>>
  /\ UNCHANGED <<loopType, usedNames, zipDocx, zipPdf, outcome, offLoop>>

\* a row throws (renderDoc, resolveRowValues): the catch block ends the loop
RowThrows ==
  /\ outcome = "running"
  /\ Len(rows) < MaxDataRows
  /\ outcome' = "error"
  /\ UNCHANGED <<loopType, rows, usedNames, zipDocx, zipPdf, emailQueue,
                 usedNamesByRecipient, offLoop>>

\* the dataset has no more rows: runGenerateJob stores the archives and is
\* done; runSendJob ends in error on an empty queue, else goes on to dispatch
LoopEnd ==
  /\ outcome = "running"
  /\ outcome' = IF loopType = "generate" THEN "done"
                ELSE IF emailQueue = <<>> THEN "error" ELSE "dispatch"
  /\ UNCHANGED <<loopType, rows, usedNames, zipDocx, zipPdf, emailQueue,
                 usedNamesByRecipient, offLoop>>

\* no row loop is followed
LoopIdle ==
  /\ loopType = "none"
  /\ rows = <<>>
  /\ usedNames = {}
  /\ zipDocx = EmptyMap
  /\ zipPdf = EmptyMap
  /\ emailQueue = <<>>
  /\ usedNamesByRecipient = EmptyMap
  /\ outcome = "none"

\* a runner enters its loop with empty archives, queue and name sets
LoopInput ==
  /\ loopType \in Types
  /\ rows = <<>>
  /\ usedNames = {}
  /\ zipDocx = EmptyMap
  /\ zipPdf = EmptyMap
  /\ emailQueue = <<>>
  /\ usedNamesByRecipient = EmptyMap
  /\ outcome = "running"

\* ------------------------------------------------------ the dispatchers
\* the addresses and the attachment lists of the queue entries followed
Address(i) == <<"r", ToString(i), "@", "x">>
AttachmentLists ==
  { << <<"a", ".", "p", "d", "f">> >>,
    << <<"a", ".", "p", "d", "f">>, <<"a", "_", "2", ".", "p", "d", "f">> >> }
Queues ==
  UNION { { [i \in 1..n |-> [to |-> Address(i), attachments |-> f[i]]] :
            f \in [1..n -> AttachmentLists] } : n \in 1..MaxQueue }
EmailModes == {"smtp", "outlook"}

normalizeEmailAttachments(item) == item.attachments

\* attachments.map(att => att.filename).filter(Boolean).join(", ")
RECURSIVE formatAttachmentNames(_)
formatAttachmentNames(names) ==
  IF names = <<>> THEN <<>>
  ELSE IF Len(names) = 1 THEN names[1]
  ELSE names[1] \o <<",", " ">> \o formatAttachmentNames(Tail(names))

\* one line of the per-recipient list
Line(to, filename, status, error) ==
  [to |-> to, filename |-> filename, status |-> status, error |-> error]

\* the list in which every item of the queue failed with the same error
AllFailed(error) ==
  [i \in 1..Len(queue) |->
     Line(queue[i].to, formatAttachmentNames(normalizeEmailAttachments(queue[i])),
          "failed", error)]

Progress(p, s) == [processed |-> p, total |-> Len(queue), sent |-> s, failed |-> p - s]

\* mutant of nextItem: a failed send leaves the loop
nextItem_BreakOnFailure(k, ok) == IF ok THEN k + 1 ELSE Len(queue) + 1

\* for (const item of queue): the item after item k
nextItem(k, ok) == k + 1

\* sendEmailsSmtp, from the top of the loop at item st.k to the next item that
\* has attachments: an item without attachments is recorded as failed
RECURSIVE skipEmpty(_)
skipEmpty(st) ==
  IF st.k > Len(queue) \/ normalizeEmailAttachments(queue[st.k]) # <<>> THEN st
  ELSE skipEmpty([st EXCEPT
         !.k = st.k + 1,
         !.processed = st.processed + 1,
         !.errors = Append(st.errors, <<"Erro para", queue[st.k].to, "Sem anexos para enviar">>),
         !.results = Append(st.results, Line(queue[st.k].to, <<>>, "failed", "Sem anexos para enviar")),
         !.reports = Append(st.reports, Progress(st.processed + 1, st.sent))])

\* sendEmailsSmtp, from the top of the loop to the next await or to the return;
\* `done` is the item whose send has just settled (0: none)
SmtpLoop(st0, done) ==
  LET st == skipEmpty(st0)
  IN  /\ cursor' = st.k
      /\ sent' = st.sent
      /\ processed' = st.processed
      /\ errors' = st.errors
      /\ results' = st.results
      /\ reports' = st.reports
      /\ IF st.k > Len(queue)
         THEN /\ result' = [sent |-> st.sent, failed |-> Len(queue) - st.sent,
                            errors |-> st.errors, results |-> st.results]
              /\ sendPc' = "returned"
              /\ inFlight' = inFlight \ {done}
              /\ UNCHANGED attempts
         ELSE /\ sendPc' = "sendMail"
              /\ attempts' = [attempts EXCEPT ![st.k] = @ + 1]
              /\ inFlight' = (inFlight \ {done}) \cup {st.k}
              /\ UNCHANGED result

\* sendEmailsSmtp up to its first await, or to its return
SmtpCall ==
  /\ sendPc = "called"
  /\ emailMode = "smtp"
  /\ IF ~smtpOptions
     THEN /\ result' = [sent |-> 0, failed |-> Len(queue),
                        errors |-> <<"SMTP nao configurado">>,
                        results |-> AllFailed("SMTP nao configurado")]
          /\ sendPc' = "returned"
          /\ UNCHANGED <<cursor, sent, processed, errors, results, reports, attempts, inFlight>>
     ELSE SmtpLoop([k |-> 1, sent |-> 0, processed |-> 0, errors |-> <<>>,
                    results |-> <<>>, reports |-> reports], 0)
  /\ UNCHANGED <<emailMode, smtpOptions, queue, report, refused, platform, offSend>>

\* transporter.sendMail settles for the item at the cursor: try, catch and
\* finally, then the loop up to the next await or to the return
SendMailSettles ==
  /\ sendPc = "sendMail"
  /\ \E ok \in BOOLEAN :
       LET item == queue[cursor]
           filenameList == formatAttachmentNames(normalizeEmailAttachments(item))
       IN  /\ refused' = IF ok THEN refused ELSE refused \cup {cursor}
           /\ SmtpLoop(
                [k |-> nextItem(cursor, ok),
                 sent |-> IF ok THEN sent + 1 ELSE sent,
                 processed |-> processed + 1,
                 errors |-> IF ok THEN errors
                            ELSE Append(errors, <<"Erro para", item.to, "rejected">>),
                 results |-> Append(results,
                               IF ok THEN Line(item.to, filenameList, "sent", "")
                               ELSE Line(item.to, filenameList, "failed", "rejected")),
                 reports |-> Append(reports,
                               Progress(processed + 1, IF ok THEN sent + 1 ELSE sent))],
                cursor)
  /\ UNCHANGED <<emailMode, smtpOptions, queue, report, platform, offSend>>

\* mutant of Supported: the script is run on every platform
Supported_Anywhere(os) == TRUE

\* process.platform === "win32"
Supported(os) == os = "win32"

\* sendEmailsOutlook returns from its catch block
OutlookCaught(error) ==
  /\ result' = [sent |-> 0, failed |-> Len(queue), errors |-> <<error>>,
                results |-> AllFailed(error)]
  /\ sendPc' = "returned"

\* sendEmailsOutlook up to the call of runPowerShell, or to its return; the
\* temporary directory or an attachment file may fail to be written
OutlookCall ==
  /\ sendPc = "called"
  /\ emailMode = "outlook"
  /\ IF ~Supported(platform)
     THEN /\ result' = [sent |-> 0, failed |-> Len(queue),
                        errors |-> <<"Outlook disponivel apenas no Windows.">>]
          /\ sendPc' = "returned"
          /\ UNCHANGED cursor
     ELSE \E fs \in {"mkdtempSync throws", "writeFileSync throws", "written"} :
            CASE fs = "mkdtempSync throws" ->
                   sendPc' = "rejected" /\ UNCHANGED <<result, cursor>>
              [] fs = "writeFileSync throws" ->
                   OutlookCaught("writeFileSync") /\ UNCHANGED cursor
              [] fs = "written" ->
                   sendPc' = "powershell" /\ cursor' = 0 /\ UNCHANGED result
  /\ UNCHANGED <<emailMode, smtpOptions, queue, sent, processed, errors, results, report,
                 reports, attempts, inFlight, refused, platform, offSend>>

\* the file names the script is given for an item: sanitizeFilename of each
payloadNames(item) ==
  [a \in 1..Len(normalizeEmailAttachments(item)) |->
     sanitizeFilename(normalizeEmailAttachments(item)[a])]

\* the script obtains Outlook and looks up the sending account: it finds it (or
\* none is asked for), or reports every item as failed and skips the sends, or
\* fails (Outlook cannot be started), which ends the script with an error
PowerShellAccount ==
  /\ sendPc = "powershell"
  /\ cursor = 0
  /\ \E account \in {"found", "not found", "throws"} :
       CASE account = "found" ->
              /\ cursor' = 1
              /\ UNCHANGED <<report, result, sendPc>>
         [] account = "not found" ->
              /\ report' = [i \in 1..Len(queue) |->
                              Line(queue[i].to, formatAttachmentNames(payloadNames(queue[i])),
                                   "failed", "Conta Outlook nao encontrada")]
              /\ cursor' = Len(queue) + 1
              /\ UNCHANGED <<result, sendPc>>
         [] account = "throws" ->
              /\ OutlookCaught("PowerShell")
              /\ UNCHANGED <<report, cursor>>
  /\ UNCHANGED <<emailMode, smtpOptions, queue, sent, processed, errors, results,
                 reports, attempts, inFlight, refused, platform, offSend>>

\* the script's loop body for one item: the mail is built (which may fail and
\* end the script with an error) and sent, and the outcome is added to $report
PowerShellItem ==
  /\ sendPc = "powershell"
  /\ cursor \in 1..Len(queue)
  /\ LET item == queue[cursor]
         fileList == formatAttachmentNames(payloadNames(item))
     IN  \E mail \in {"sent", "failed", "throws"} :
           CASE mail = "throws" ->
                  /\ OutlookCaught("PowerShell")
                  /\ UNCHANGED <<report, cursor, attempts, refused>>
             [] mail # "throws" ->
                  /\ IF item.to = <<>>
                     THEN /\ report' = Append(report, Line(item.to, <<>>, "skipped", "Destinatario vazio"))
                          /\ UNCHANGED <<attempts, refused>>
                     ELSE IF payloadNames(item) = <<>>
                     THEN /\ report' = Append(report, Line(item.to, fileList, "failed", "Sem anexos"))
                          /\ UNCHANGED <<attempts, refused>>
                     ELSE /\ attempts' = [attempts EXCEPT ![cursor] = @ + 1]
                          /\ refused' = IF mail = "sent" THEN refused ELSE refused \cup {cursor}
                          /\ report' = Append(report,
                                         IF mail = "sent" THEN Line(item.to, fileList, "sent", "")
                                         ELSE Line(item.to, fileList, "failed", "rejected"))
                  /\ cursor' = cursor + 1
                  /\ UNCHANGED <<result, sendPc>>
  /\ UNCHANGED <<emailMode, smtpOptions, queue, sent, processed, errors, results,
                 reports, inFlight, platform, offSend>>

\* the number of lines of a report that satisfy a condition on the status
CountStatus(rep, status) == Cardinality({i \in 1..Len(rep) : rep[i].status = status})

\* report.filter(r => r.error).map(r => `${r.to}: ${r.error}`)
RECURSIVE errorsOf(_)
errorsOf(rep) ==
  IF rep = <<>> THEN <<>>
  ELSE IF rep[1].error # "" THEN << <<rep[1].to, rep[1].error>> >> \o errorsOf(Tail(rep))
  ELSE errorsOf(Tail(rep))

\* the script ends with exit code 0 and sendEmailsOutlook reads its report
PowerShellCloses ==
  /\ sendPc = "powershell"
  /\ cursor = Len(queue) + 1
  /\ result' = [sent |-> CountStatus(report, "sent"),
                failed |-> CountStatus(report, "failed") + CountStatus(report, "skipped"),
                errors |-> errorsOf(report),
                results |-> report]
  /\ sendPc' = "returned"
  /\ UNCHANGED <<emailMode, smtpOptions, queue, cursor, sent, processed, errors, results,
                 report, reports, attempts, inFlight, refused, platform, offSend>>

\* no dispatch is followed
SendIdle ==
  /\ emailMode = "smtp"
  /\ smtpOptions = FALSE
  /\ queue = <<>>
  /\ sendPc = "idle"
  /\ cursor = 0
  /\ sent = 0
  /\ processed = 0
  /\ errors = <<>>
  /\ results = <<>>
  /\ report = <<>>
  /\ result = [sent |-> 0, failed |-> 0, errors |-> <<>>]
  /\ reports = <<>>
  /\ attempts = <<>>
  /\ inFlight = {}
  /\ refused = {}

\* a runner calls a dispatcher on its queue, which is never empty
SendInput ==
  /\ emailMode \in EmailModes
  /\ smtpOptions \in BOOLEAN
  /\ queue \in Queues
  /\ sendPc = "called"
  /\ cursor = 0
  /\ sent = 0
  /\ processed = 0
  /\ errors = <<>>
  /\ results = <<>>
  /\ report = <<>>
  /\ result = [sent |-> 0, failed |-> 0, errors |-> <<>>]
  /\ reports = <<>>
  /\ attempts = [i \in 1..Len(queue) |-> 0]
  /\ inFlight = {}
  /\ refused = {}

\* --------------------------------------------------------- the resolver
LIST_SEPARATOR == <<",", " ">>
LIST_CONJUNCTION == <<"e">>

\* /^\s/.test(str)
startsWithSpace(str) == str # <<>> /\ Head(str) = " "

buildListPrefix(basePrefix, position, total) ==
  IF total <= 1 \/ position = 0 THEN basePrefix
  ELSE IF position = total - 1
  THEN <<" ">> \o LIST_CONJUNCTION
         \o (IF basePrefix # <<>> /\ ~startsWithSpace(basePrefix) THEN <<" ">> ELSE <<>>)
         \o basePrefix
  ELSE LIST_SEPARATOR \o basePrefix

\* str.replace(/^\{\{|\}\}$/g, "")
stripBraces(str) ==
  LET open == Len(str) >= 2 /\ SubSeq(str, 1, 2) = <<"{", "{">>
      rest == IF open THEN SubSeq(str, 3, Len(str)) ELSE str
  IN  IF endsWith(rest, <<"}", "}">>) THEN SubSeq(rest, 1, Len(rest) - 2) ELSE rest

\* value.replace(/\"/g, "")
sanitizeCellValue(rawValue) == SelectSeq(rawValue, LAMBDA c : c # "\"")

\* getRowValue: the cell under the column name, or under the first key equal
\* to it up to case and surrounding blanks, or ""
getRowValue(r, columnName) ==
  IF columnName = <<>> THEN <<>>
  ELSE IF columnName \in DOMAIN r THEN r[columnName]
  ELSE LET target == toLowerCase(trim(columnName))
           keys == {k \in DOMAIN r : toLowerCase(trim(k)) = target}
       IN  IF target = <<>> \/ keys = {} THEN <<>>
           ELSE r[CHOOSE k \in keys : TRUE]

\* resolveRowValues: mapping.map(...)
itemOf(entry, index, r) ==
  LET value == sanitizeCellValue(getRowValue(r, entry.column))
  IN  [index |-> index,
       key |-> stripBraces(entry.placeholder),
       value |-> value,
       trimmed |-> trim(value),
       hasValue |-> trim(value) # <<>>,
       prefix |-> entry.prefix,
       group |-> trim(entry.group)]

\* mutant of dedupe: the values are compared as they are spelled
RECURSIVE dedupe_CaseSensitive(_, _, _)
dedupe_CaseSensitive(items, k, seenByGroup) ==
  IF k > Len(items) THEN items
  ELSE IF items[k].group = <<>> \/ ~items[k].hasValue
  THEN dedupe_CaseSensitive(items, k + 1, seenByGroup)
  ELSE LET normalized == items[k].trimmed
           groupSet == Get(seenByGroup, items[k].group, {})
       IN  IF normalized \in groupSet
           THEN dedupe_CaseSensitive([items EXCEPT ![k].hasValue = FALSE], k + 1, seenByGroup)
           ELSE dedupe_CaseSensitive(items, k + 1,
                  Put(seenByGroup, items[k].group, groupSet \cup {normalized}))

\* resolveRowValues: the pass over seenByGroup, from item k on
RECURSIVE dedupe(_, _, _)
dedupe(items, k, seenByGroup) ==
  IF k > Len(items) THEN items
  ELSE IF items[k].group = <<>> \/ ~items[k].hasValue
  THEN dedupe(items, k + 1, seenByGroup)
  ELSE LET normalized == toLowerCase(items[k].trimmed)
           groupSet == Get(seenByGroup, items[k].group, {})
       IN  IF normalized \in groupSet
           THEN dedupe([items EXCEPT ![k].hasValue = FALSE], k + 1, seenByGroup)
           ELSE dedupe(items, k + 1,
                  Put(seenByGroup, items[k].group, groupSet \cup {normalized}))


\* mutant of positionOf: the position among all the entries of the group
positionOf_AmongAll(items, k) ==
  LET present == {i \in 1..Len(items) : items[i].group = items[k].group}
  IN  [pos |-> Cardinality({i \in present : i < k}), total |-> Cardinality(present)]

\* resolveRowValues: positions.get(item.index) for an item with a group
positionOf(items, k) ==
  LET present == {i \in 1..Len(items) : items[i].group = items[k].group /\ items[i].hasValue}
  IN  [pos |-> Cardinality({i \in present : i < k}), total |-> Cardinality(present)]

\* resolveRowValues: what the last pass assigns for item k
textOf(items, k) ==
  IF ~items[k].hasValue THEN <<>>
  ELSE IF items[k].group # <<>>
  THEN buildListPrefix(items[k].prefix, positionOf(items, k).pos, positionOf(items, k).total)
         \o items[k].value
  ELSE items[k].prefix \o items[k].value

\* resolveRowValues: values[item.key] = ..., item by item
RECURSIVE assign(_, _, _)
assign(items, k, vals) ==
  IF k > Len(items) THEN vals
  ELSE assign(items, k + 1, Put(vals, items[k].key, textOf(items, k)))

resolveRowValues(m, r) ==
  LET items == dedupe([i \in 1..Len(m) |-> itemOf(m[i], i, r)], 1, EmptyMap)
  IN  assign(items, 1, EmptyMap)

\* the mappings and rows followed: entry i maps placeholder k<i> (the first one
\* written with its braces) to column c<i>, with or without a prefix (every
\* second prefix begins with a blank) and group
Column(i) == <<"c", ToString(i)>>
Placeholder(i) ==
  IF i = 1 THEN <<"{", "{", "k", "1", "}", "}">> ELSE <<"k", ToString(i)>>
PrefixOf(i) == IF i % 2 = 0 THEN <<" ", "p", ToString(i)>> ELSE <<"p", ToString(i)>>
Groups == {<<>>, <<"g">>, <<"h">>}
Cells == {<<>>, <<"A">>, <<"\"", "a", " ", "\"">>, <<"B">>, <<"C">>}
MappingInputs ==
  UNION { { [i \in 1..n |-> [placeholder |-> Placeholder(i), column |-> Column(i),
                             prefix |-> IF p[i] THEN PrefixOf(i) ELSE <<>>,
                             group |-> g[i]]] :
            p \in [1..n -> BOOLEAN], g \in [1..n -> Groups] } : n \in 1..MaxEntries }

\* resolveRowValues(mapping, row)
ResolveRow ==
  /\ resolvePc = "called"
  /\ values' = resolveRowValues(mapping, rowData)
  /\ resolvePc' = "returned"
  /\ UNCHANGED <<mapping, rowData, offResolve>>

\* the resolver is not followed
ResolveIdle ==
  /\ mapping = <<>>
  /\ rowData = EmptyMap
  /\ values = EmptyMap
  /\ resolvePc = "idle"

\* a runner calls resolveRowValues on its mapping and a row of the dataset
ResolveInput ==
  /\ mapping \in MappingInputs
  /\ rowData \in UNION {[{Column(i) : i \in 1..n} -> Cells] : n \in {Len(mapping)}}
  /\ values = EmptyMap
  /\ resolvePc = "called"

\* ------------------------------------------- the sanitizer, the extractor
\* the number of times c stands at the head of str, and str without its first k
Leading(str, c) ==
  CHOOSE k \in 0..Len(str) :
    /\ \A i \in 1..k : str[i] = c
    /\ k = Len(str) \/ str[k + 1] # c
Drop(str, k) == SubSeq(str, k + 1, Len(str))

\* xml.replace(/\{\s+/g, "{")
RECURSIVE dropAfterOpen(_)
dropAfterOpen(xml) ==
  IF xml = <<>> THEN <<>>
  ELSE IF Head(xml) = "{" THEN <<"{">> \o dropAfterOpen(trimStart(Tail(xml)))
  ELSE <<Head(xml)>> \o dropAfterOpen(Tail(xml))

\* xml.replace(/\s+\}/g, "}")
RECURSIVE dropBeforeClose(_)
dropBeforeClose(xml) ==
  IF xml = <<>> THEN <<>>
  ELSE IF Head(xml) = " "
  THEN LET k == Leading(xml, " ")
           rest == Drop(xml, k)
       IN  IF rest # <<>> /\ Head(rest) = "}" THEN dropBeforeClose(rest)
           ELSE SubSeq(xml, 1, k) \o dropBeforeClose(rest)
  ELSE <<Head(xml)>> \o dropBeforeClose(Tail(xml))

\* xml.replace(/\{ {0,}\{+/g, "{{") and xml.replace(/\} {0,}\}+/g, "}}"), for
\* c the brace
RECURSIVE joinBraces(_, _)
joinBraces(xml, c) ==
  IF xml = <<>> THEN <<>>
  ELSE IF Head(xml) = c
  THEN LET rest == Drop(Tail(xml), Leading(Tail(xml), " "))
           k == Leading(rest, c)
       IN  IF k >= 1 THEN <<c, c>> \o joinBraces(Drop(rest, k), c)
           ELSE <<c>> \o joinBraces(Tail(xml), c)
  ELSE <<Head(xml)>> \o joinBraces(Tail(xml), c)

\* xml.replace(/\{+/g, m => m.length >= 2 ? "{{" : "{"), and the same for "}"
RECURSIVE capBraces(_, _)
capBraces(xml, c) ==
  IF xml = <<>> THEN <<>>
  ELSE IF Head(xml) = c
  THEN LET k == Leading(xml, c)
       IN  (IF k >= 2 THEN <<c, c>> ELSE <<c>>) \o capBraces(Drop(xml, k), c)
  ELSE <<Head(xml)>> \o capBraces(Tail(xml), c)

normalizeXml(xml) ==
  capBraces(
    capBraces(
      joinBraces(
        joinBraces(dropBeforeClose(dropAfterOpen(xml)), "{"),
        "}"),
      "{"),
    "}")

\* String.prototype.indexOf, counting from 1: the first place at or after
\* `from` where pat stands, or 0
indexOf(str, pat, from) ==
  LET at == {i \in from..(Len(str) - Len(pat) + 1) : SubSeq(str, i, i + Len(pat) - 1) = pat}
  IN  IF at = {} THEN 0 ELSE CHOOSE i \in at : \A k \in at : i <= k

\* str.replace(/<[^>]+>/g, "")
RECURSIVE stripTags(_)
stripTags(str) ==
  IF str = <<>> THEN <<>>
  ELSE IF Head(str) = "<" /\ indexOf(str, <<">">>, 3) # 0
                          /\ indexOf(str, <<">">>, 2) = indexOf(str, <<">">>, 3)
  THEN stripTags(Drop(str, indexOf(str, <<">">>, 3)))
  ELSE <<Head(str)>> \o stripTags(Tail(str))

\* /{{\s*([^}]+?)\s*}}/ matches at place i of str: two opening braces, at
\* least one character that is no closing brace, two closing braces
matchesAt(str, i) ==
  /\ i + 1 <= Len(str)
  /\ str[i] = "{" /\ str[i + 1] = "{"
  /\ LET q == indexOf(str, <<"}">>, i + 2)
     IN  q > i + 2 /\ q + 1 <= Len(str) /\ str[q + 1] = "}"

\* the first match of the pattern at or after `from`: the place where it
\* begins (0: no match), the text between the braces, trimmed, and the place
\* after its end
matchFrom(str, from) ==
  LET at == {i \in from..Len(str) : matchesAt(str, i)}
      i == CHOOSE k \in at : \A l \in at : k <= l
      q == indexOf(str, <<"}">>, i + 2)
  IN  IF at = {} THEN [index |-> 0, name |-> <<>>, end |-> 0]
      ELSE [index |-> i, name |-> trim(SubSeq(str, i + 2, q - 1)), end |-> q + 2]

\* cleaned.replace(/[{}]/g, "")
withoutBraces(str) == SelectSeq(str, LAMBDA c : c \notin {"{", "}"})

\* fixSplitPlaceholders: the placeholder recomposed from a chunk
placeholderOf(chunk) ==
  LET stripped == stripTags(chunk)
  IN  IF matchFrom(stripped, 1).index # 0 THEN matchFrom(stripped, 1).name
      ELSE trim(withoutBraces(stripped))

\* fixSplitPlaceholders: the loop, from `cursor` on, and the tail
RECURSIVE fixFrom(_, _, _)
fixFrom(xml, from, fixed) ==
  LET start == indexOf(xml, <<"{", "{">>, from)
      end == IF start = 0 THEN 0 ELSE indexOf(xml, <<"}", "}">>, start + 2)
  IN  IF start = 0 \/ end = 0 THEN fixed \o SubSeq(xml, from, Len(xml))
      ELSE fixFrom(xml, end + 2,
             fixed \o SubSeq(xml, from, start - 1)
                    \o <<"{", "{">> \o placeholderOf(SubSeq(xml, start, end + 1))
                    \o <<"}", "}">>)

fixSplitPlaceholders(xml) == fixFrom(xml, 1, <<>>)

\* sanitizeTemplateBuffer, on the markup of word/document.xml
sanitizeTemplateBuffer(xml) == fixSplitPlaceholders(normalizeXml(xml))

\* mutant of namesFrom: every match is returned
RECURSIVE namesFrom_All(_, _, _)
namesFrom_All(plain, from, names) ==
  LET match == matchFrom(plain, from)
  IN  IF match.index = 0 THEN names
      ELSE namesFrom_All(plain, match.end, Append(names, match.name))

\* extractPlaceholders: the loop over regex.exec(plain) that fills the Set
RECURSIVE namesFrom(_, _, _)
namesFrom(plain, from, names) ==
  LET match == matchFrom(plain, from)
  IN  IF match.index = 0 THEN names
      ELSE namesFrom(plain, match.end,
             IF \E n \in 1..Len(names) : names[n] = match.name THEN names
             ELSE Append(names, match.name))

extractPlaceholders(xml) == namesFrom(stripTags(sanitizeTemplateBuffer(xml)), 1, <<>>)

\* the templates followed: one of the markups below, with up to MaxTags tags
\* <i> inserted anywhere
Untagged ==
  { <<"{", "{", "a", "}", "}">>,
    <<"{", "{", " ", "a", " ", "}", "}">>,
    <<"{", "{", "a", "}", "}", "{", "{", "b", "}", "}">>,
    <<"{", "{", "b", "}", "}", " ", "{", "{", "a", "}", "}", "{", "{", "b", "}", "}">>,
    <<"{", "{", "{", "{", "a", "}", "}", "}", "}">>,
    <<"{", "{", "{", "a", "}", "}">>,
    <<"{", " ", "{", "a", "}", " ", "}">>,
    <<"a", "{", "b", "}", "{", "{", "}", "}">> }
Tag == <<"<", "i", ">">>

\* str with a tag inserted in each of the gaps (0: before the first character)
RECURSIVE insertTags(_, _, _)
insertTags(str, gaps, k) ==
  IF k > Len(str) THEN IF Len(str) \in gaps THEN Tag ELSE <<>>
  ELSE (IF k - 1 \in gaps THEN Tag ELSE <<>>) \o <<str[k]>> \o insertTags(str, gaps, k + 1)

\* sanitizeTemplateBuffer(templateBuffer)
SanitizeTemplate ==
  /\ templatePc = "uploaded"
  /\ cleaned' = sanitizeTemplateBuffer(template)
  /\ templatePc' = "sanitized"
  /\ UNCHANGED <<untagged, template, again, placeholders, offTemplate>>

\* sanitizeTemplateBuffer on what sanitizeTemplateBuffer returned
SanitizeAgain ==
  /\ templatePc = "sanitized"
  /\ again' = sanitizeTemplateBuffer(cleaned)
  /\ templatePc' = "resanitized"
  /\ UNCHANGED <<untagged, template, cleaned, placeholders, offTemplate>>

\* extractPlaceholders(templateBuffer)
ExtractPlaceholders ==
  /\ templatePc = "resanitized"
  /\ placeholders' = extractPlaceholders(template)
  /\ templatePc' = "extracted"
  /\ UNCHANGED <<untagged, template, cleaned, again, offTemplate>>

\* no template is followed
TemplateIdle ==
  /\ untagged = <<>>
  /\ template = <<>>
  /\ cleaned = <<>>
  /\ again = <<>>
  /\ placeholders = <<>>
  /\ templatePc = "idle"

\* a template is uploaded
TemplateInput ==
  /\ untagged \in Untagged
  /\ \E gaps \in SUBSET (0..Len(untagged)) :
       /\ Cardinality(gaps) <= MaxTags
       /\ template = insertTags(untagged, gaps, 1)
  /\ cleaned = <<>>
  /\ again = <<>>
  /\ placeholders = <<>>
  /\ templatePc = "uploaded"

\* ----------------------------------------------------------- the renderer
\* String(val || "").replace(/&/g, "&amp;")...: one character of the value
escapeChar(c) ==
  IF c = "&" THEN <<"&", "a", "m", "p", ";">>
  ELSE IF c = "<" THEN <<"&", "l", "t", ";">>
  ELSE IF c = ">" THEN <<"&", "g", "t", ";">>
  ELSE IF c = "\"" THEN <<"&", "q", "u", "o", "t", ";">>
  ELSE <<c>>

RECURSIVE escapeXml(_)
escapeXml(val) ==
  IF val = <<>> THEN <<>> ELSE escapeChar(Head(val)) \o escapeXml(Tail(val))

\* new RegExp(`{{\\s*${safeKey}\\s*}}`) matches at place i of str: the place
\* after the match, or 0; safeKey is the key, trimmed, with the characters a
\* pattern reads escaped, so that it stands for itself
tokenEnd(str, i, key) ==
  LET j == i + 2 + Leading(Drop(str, i + 1), " ")
      k == j + Len(key) + Leading(Drop(str, j + Len(key) - 1), " ")
  IN  IF /\ i + 1 <= Len(str)
         /\ str[i] = "{" /\ str[i + 1] = "{"
         /\ j + Len(key) - 1 <= Len(str)
         /\ SubSeq(str, j, j + Len(key) - 1) = key
         /\ k + 1 <= Len(str)
         /\ str[k] = "}" /\ str[k + 1] = "}"
      THEN k + 2 ELSE 0

\* String.prototype.replace with a string as replacement: what is written for
\* a match `matched` found between `before` and `after`.  In the replacement
\* "$$" stands for one "$", "$&" for the match, "$`" for the text before it and
\* "$'" for the text after it; the expression has no group, so "$" before
\* anything else is written as it is
RECURSIVE substitution(_, _, _, _)
substitution(by, matched, before, after) ==
  IF by = <<>> THEN <<>>
  ELSE IF Head(by) = "$" /\ Len(by) >= 2 /\ by[2] \in {"$", "&", "`", "'"}
  THEN (CASE by[2] = "$" -> <<"$">>
          [] by[2] = "&" -> matched
          [] by[2] = "`" -> before
          [] by[2] = "'" -> after)
         \o substitution(Drop(by, 2), matched, before, after)
  ELSE <<Head(by)>> \o substitution(Tail(by), matched, before, after)

\* xml.replace(simple, by), from place i on
RECURSIVE replaceFrom(_, _, _, _)
replaceFrom(str, i, key, by) ==
  IF i > Len(str) THEN <<>>
  ELSE IF tokenEnd(str, i, key) # 0
  THEN substitution(by, SubSeq(str, i, tokenEnd(str, i, key) - 1),
                    SubSeq(str, 1, i - 1), SubSeq(str, tokenEnd(str, i, key), Len(str)))
         \o replaceFrom(str, tokenEnd(str, i, key), key, by)
  ELSE <<str[i]>> \o replaceFrom(str, i + 1, key, by)

replaceToken(str, key, by) == replaceFrom(str, 1, trim(key), by)

\* renderDoc: Object.entries(data).forEach(...), from entry n on
RECURSIVE fillFrom(_, _, _)
fillFrom(str, entries, n) ==
  IF n > Len(entries) THEN str
  ELSE fillFrom(replaceToken(str, entries[n].key, escapeXml(entries[n].val)), entries, n + 1)

\* renderDoc: placeholders.forEach(...), from placeholder n on
RECURSIVE clearFrom(_, _, _)
clearFrom(str, phs, n) ==
  IF n > Len(phs) THEN str
  ELSE clearFrom(replaceToken(str, phs[n], <<>>), phs, n + 1)

WT == <<"<", "w", ":", "t">>
WTEnd == <<"<", "/", "w", ":", "t", ">">>
Preserve == <<" ", "x", "m", "l", ":", "s", "p", "a", "c", "e", "=", "\"",
              "p", "r", "e", "s", "e", "r", "v", "e", "\"">>

\* /<w:t([^>]*)>([^<]*)<\/w:t>/ matches at the head of str: its attributes,
\* its text and its length (0: no match)
textRun(str) ==
  LET gt == indexOf(str, <<">">>, 5)
      lt == IF gt = 0 THEN 0 ELSE indexOf(str, <<"<">>, gt + 1)
  IN  IF /\ Len(str) >= 4 /\ SubSeq(str, 1, 4) = WT
         /\ gt # 0 /\ lt # 0
         /\ lt + 5 <= Len(str) /\ SubSeq(str, lt, lt + 5) = WTEnd
      THEN [attrs |-> SubSeq(str, 5, gt - 1), text |-> SubSeq(str, gt + 1, lt - 1),
            length |-> lt + 5]
      ELSE [attrs |-> <<>>, text |-> <<>>, length |-> 0]

\* preserveTextSpaces: what the callback returns for a match
spacePreserved(run) ==
  IF \/ run.text = <<>>
     \/ Head(run.text) # " " /\ run.text[Len(run.text)] # " "
     \/ indexOf(run.attrs, Tail(Preserve), 1) # 0
  THEN WT \o run.attrs \o <<">">> \o run.text \o WTEnd
  ELSE WT \o run.attrs \o Preserve \o <<">">> \o run.text \o WTEnd

RECURSIVE preserveTextSpaces(_)
preserveTextSpaces(xml) ==
  IF xml = <<>> THEN <<>>
  ELSE IF textRun(xml).length # 0
  THEN spacePreserved(textRun(xml)) \o preserveTextSpaces(Drop(xml, textRun(xml).length))
  ELSE <<Head(xml)>> \o preserveTextSpaces(Tail(xml))

\* zip.file(XML_PATH, xml); zip.generate(...): the archive, as the markup of
\* word/document.xml and the date PizZip gives an entry written without one
\* (new Date()), which generate writes into the entry's headers
zipGenerate(xml, date) == [xml |-> xml, date |-> date]

\* renderDoc(templateBuffer, data, placeholders), called when the clock shows date
renderDoc(templateBuffer, entries, phs, date) ==
  zipGenerate(
    preserveTextSpaces(
      clearFrom(fillFrom(sanitizeTemplateBuffer(templateBuffer), entries, 1), phs, 1)),
    date)

\* runGenerateJob / runSendJob: Object.entries(data) for a row; the keys of
\* placeholders come first, then the keys of resolved that are new, in the
\* order resolveRowValues wrote them (no key followed is written as a number)
dataOf(phs, m, resolved) ==
  LET keys == [i \in 1..Len(m) |-> stripBraces(m[i].placeholder)]
      isNew(i) == /\ \A n \in 1..Len(phs) : phs[n] # keys[i]
                  /\ \A l \in 1..(i - 1) : keys[l] # keys[i]
      new == SelectSeq([i \in 1..Len(m) |-> i], isNew)
  IN  [n \in 1..Len(phs) |-> [key |-> phs[n], val |-> Get(resolved, phs[n], <<>>)]]
        \o [n \in 1..Len(new) |-> [key |-> keys[new[n]], val |-> resolved[keys[new[n]]]]]

\* the templates, mappings and rows followed
Text(str) == WT \o <<">">> \o str \o WTEnd
Token(name) == <<"{", "{">> \o name \o <<"}", "}">>
RenderTemplates ==
  { Text(Token(<<"a">>)),
    Text(Token(<<"a">>) \o <<" ">> \o Token(<<"b">>)),
    WT \o Preserve \o <<">">> \o Token(<<"b">>) \o Token(<<"a">>) \o WTEnd,
    Text(Token(<<"a">>) \o Token(<<"b">>) \o Token(<<"x">>)) }
RenderKeys ==
  { <<>>, <<Token(<<"a">>)>>, <<<<"y">>, <<"a">>>>, <<<<"b">>, <<"a">>, <<"b">>>>,
    <<<<"a">>, <<"b">>, <<"x">>>> }
RenderCells ==
  { <<>>, <<"A">>, <<" ", "A">>, <<"<">>,
    <<"{", "{", "{", "{", "b", "}", "}", "a", "}", "}">>,
    Token(<<"b">>), <<"$", "$">>, <<"$", "&">> }
RenderMappings ==
  { [i \in 1..Len(keys) |-> [placeholder |-> keys[i], column |-> Column(i),
                             prefix |-> <<>>, group |-> <<>>]] : keys \in RenderKeys }

\* runGenerateJob / runSendJob: the row's data object is built
BuildData ==
  /\ renderPc = "row"
  /\ values' = resolveRowValues(mapping, rowData)
  /\ resolvePc' = "returned"
  /\ renderData' = dataOf(placeholders, mapping, resolveRowValues(mapping, rowData))
  /\ renderPc' = "data"
  /\ UNCHANGED <<mapping, rowData, templateVars, rendered, renderedAgain, offRender>>

\* renderDoc(templateBuffer, data, placeholders)
RenderDoc ==
  /\ renderPc = "data"
  /\ rendered' = renderDoc(template, renderData, placeholders, now)
  /\ renderPc' = "rendered"
  /\ UNCHANGED <<resolveVars, templateVars, renderData, renderedAgain, offRender>>

\* renderDoc called once more with the same arguments
RenderDocAgain ==
  /\ renderPc = "rendered"
  /\ renderedAgain' = renderDoc(template, renderData, placeholders, now)
  /\ renderPc' = "rendered twice"
  /\ UNCHANGED <<resolveVars, templateVars, renderData, rendered, offRender>>

NoDocument == [xml |-> <<>>, date |-> 0]

\* the renderer is not followed
RenderIdle ==
  /\ renderData = <<>>
  /\ rendered = NoDocument
  /\ renderedAgain = NoDocument
  /\ renderPc = "idle"

\* a runner is at a row of its dataset, with the template, the placeholders
\* the route extracted from it and the mapping of the request
RenderInput ==
  /\ template \in RenderTemplates
  /\ untagged = template
  /\ cleaned = sanitizeTemplateBuffer(template)
  /\ again = sanitizeTemplateBuffer(cleaned)
  /\ placeholders = extractPlaceholders(template)
  /\ templatePc = "extracted"
  /\ mapping \in RenderMappings
  /\ rowData \in UNION {[{Column(i) : i \in 1..n} -> RenderCells] : n \in {Len(mapping)}}
  /\ values = EmptyMap
  /\ resolvePc = "called"
  /\ renderData = <<>>
  /\ rendered = NoDocument
  /\ renderedAgain = NoDocument
  /\ renderPc = "row"

\* none of the document functions is followed
DocIdle == ResolveIdle /\ TemplateIdle /\ RenderIdle

\* ------------------------------------------------------- the event loop
JobIds == DOMAIN pc
MicroPcs == {"loop", "row", "dispatch"}
Woken(j) == pc[j] = "blocked" /\ awaiting[j] \in settled[j]
MicroIdle == \A j \in JobIds : pc[j] \notin MicroPcs /\ ~Woken(j)

ServerStart(ids) ==
  /\ jobs = {}
  /\ job = [j \in ids |-> NoJob]
  /\ pc = [j \in ids |-> "none"]
  /\ cont = [j \in ids |-> "row"]
  /\ idx = [j \in ids |-> 0]
  /\ awaiting = [j \in ids |-> 0]
  /\ settled = [j \in ids |-> {}]
  /\ rowRcpt = [j \in ids |-> {}]
  /\ locals = [j \in ids |-> NoLocals]
  /\ now = 0
  /\ resp = [op |-> "none", id |-> 0, code |-> 0, status |-> "", error |-> "",
             accepted |-> FALSE, resultReady |-> FALSE, result |-> NoResult]
  /\ started = [j \in ids |-> <<>>]
  /\ finished = [j \in ids |-> <<>>]
  /\ pauseCur = [j \in ids |-> 0]
  /\ pauseBusy = [j \in ids |-> FALSE]
  /\ swept = FALSE

ServerInit == ServerStart(OneJob)

Init == ServerInit /\ ChainIdle /\ LoopIdle /\ SendIdle /\ DocIdle



\* mutant of pauseJob: the status is not looked at, every call pauses and touches
pauseJob_NoGuard(j) ==
  touchJob([job[j] EXCEPT
    !.paused = TRUE,
    !.status = "paused",
    !.pausePromise = IF @ = 0 THEN NewPromise(j) ELSE @,
    !.resume = IF job[j].pausePromise = 0 THEN NewPromise(j) ELSE @])

\* ------------------------------------------------------ pause and resume
\* pauseJob
pauseJob(j) ==
  IF job[j].status # "running" THEN job[j]
  ELSE touchJob([job[j] EXCEPT
         !.paused = TRUE,
         !.status = "paused",
         !.pausePromise = IF @ = 0 THEN NewPromise(j) ELSE @,
         !.resume = IF job[j].pausePromise = 0 THEN NewPromise(j) ELSE @])

\* resumeJob
resumeJob(j) ==
  IF ~job[j].paused THEN job[j]
  ELSE touchJob([job[j] EXCEPT
         !.paused = FALSE, !.status = "running", !.pausePromise = 0, !.resume = 0])


\* mutant of resumeResolves: resumeJob clears the signal without calling job.resume()
resumeResolves_None(j) == {}

\* resumeJob: `if (job.resume) job.resume()` resolves the promise job.resume belongs to
resumeResolves(j) ==
  IF job[j].paused /\ job[j].resume # 0 THEN {job[j].resume} ELSE {}

\* the promise object created when `old` became `new` (its name is taken afresh)
Armed(old, new) ==
  IF old.pausePromise = 0 /\ new.pausePromise # 0 THEN {new.pausePromise} ELSE {}

\* waitIfPaused, up to its await: the job object after the call
waitArm(j, jb) ==
  IF jb.paused /\ jb.pausePromise = 0
  THEN [jb EXCEPT !.pausePromise = NewPromise(j), !.resume = NewPromise(j)]
  ELSE jb


\* mutant of waitIfPaused: the pause flag is ignored and the runner goes on
waitIfPaused_NoBlock(j, jb, k) ==
  /\ job' = [job EXCEPT ![j] = jb]
  /\ cont' = [cont EXCEPT ![j] = k]
  /\ pc' = [pc EXCEPT ![j] = k]
  /\ UNCHANGED <<awaiting, settled>>

\* waitIfPaused called by runner j on job object jb, continuing at k
waitIfPaused(j, jb, k) ==
  /\ job' = [job EXCEPT ![j] = waitArm(j, jb)]
  /\ cont' = [cont EXCEPT ![j] = k]
  /\ IF ~jb.paused
     THEN /\ pc' = [pc EXCEPT ![j] = k]
          /\ UNCHANGED <<awaiting, settled>>
     ELSE /\ pc' = [pc EXCEPT ![j] = "blocked"]
          /\ awaiting' = [awaiting EXCEPT ![j] = waitArm(j, jb).pausePromise]
          /\ settled' = [settled EXCEPT ![j] = @ \ Armed(jb, waitArm(j, jb))]

\* the continuation of `await job.pausePromise` once the promise is resolved
Wake(j) ==
  /\ Woken(j)
  /\ pc' = [pc EXCEPT ![j] = cont[j]]
  /\ settled' = [settled EXCEPT ![j] = @ \ {awaiting[j]}]
  /\ awaiting' = [awaiting EXCEPT ![j] = 0]
  /\ UNCHANGED <<dataVars, jobs, job, cont, idx, rowRcpt, locals, now, resp, histVars>>

\* a response: the route, the :id, the HTTP code and the body's fields; `accepted`
\* is not sent: it records that the request changed the status of the job
Response(op, id, code, jb) ==
  [op |-> op, id |-> id, code |-> code, status |-> jb.status, error |-> "",
   accepted |-> FALSE, resultReady |-> FALSE, result |-> NoResult]

\* res.status(code).json({ error })
ErrorResponse(op, id, code, error) ==
  [Response(op, id, code, [status |-> ""]) EXCEPT !.error = error]

NotFound(op, id) == ErrorResponse(op, id, 404, "Job nao encontrado.")


\* mutant of PauseRoute: the pause flag is shared by every job of the registry
PauseRoute_Shared(id) ==
  /\ MicroIdle
  /\ id \in jobs
  /\ job' = [k \in JobIds |->
               IF k \in jobs /\ job[k].status \notin {"done", "error"}
               THEN pauseJob(k) ELSE job[k]]
  /\ resp' = Response("pause", id, 200, job'[id])
  /\ settled' = [k \in JobIds |-> settled[k] \ Armed(job[k], job'[k])]
  /\ UNCHANGED <<dataVars, jobs, pc, cont, idx, awaiting, rowRcpt, locals, now, histVars>>

\* POST /jobs/:id/pause
PauseRoute(id) ==
  /\ MicroIdle
  /\ IF id \notin jobs
     THEN /\ resp' = NotFound("pause", id)
          /\ UNCHANGED <<job, settled, pauseCur, pauseBusy>>
     ELSE IF job[id].status \in {"done", "error"}
     THEN /\ resp' = Response("pause", id, 200, job[id])
          /\ UNCHANGED <<job, settled, pauseCur, pauseBusy>>
     ELSE /\ job' = [job EXCEPT ![id] = pauseJob(id)]
          /\ resp' = [Response("pause", id, 200, pauseJob(id)) EXCEPT
                         !.accepted = pauseJob(id).status # job[id].status]
          /\ settled' = [settled EXCEPT ![id] = @ \ Armed(job[id], pauseJob(id))]
          /\ IF pauseJob(id).status # job[id].status
             THEN /\ pauseCur' = [pauseCur EXCEPT ![id] = job[id].current]
                  /\ pauseBusy' = [pauseBusy EXCEPT ![id] = pc[id] = "converting"]
             ELSE UNCHANGED <<pauseCur, pauseBusy>>
  /\ UNCHANGED <<dataVars, jobs, pc, cont, idx, awaiting, rowRcpt, locals, now, started, finished, swept>>


\* mutant of ResumeRoute: the route calls resumeJob without looking at the status first
ResumeRoute_NoTerminalCheck(id) ==
  /\ MicroIdle
  /\ IF id \notin jobs
     THEN /\ resp' = NotFound("resume", id)
          /\ UNCHANGED <<job, settled>>
     ELSE /\ job' = [job EXCEPT ![id] = resumeJob(id)]
          /\ resp' = [Response("resume", id, 200, resumeJob(id)) EXCEPT
                         !.accepted = resumeJob(id).status # job[id].status]
          /\ settled' = [settled EXCEPT ![id] = @ \cup resumeResolves(id)]
  /\ UNCHANGED <<dataVars, jobs, pc, cont, idx, awaiting, rowRcpt, locals, now, histVars>>

\* POST /jobs/:id/resume
ResumeRoute(id) ==
  /\ MicroIdle
  /\ IF id \notin jobs
     THEN /\ resp' = NotFound("resume", id)
          /\ UNCHANGED <<job, settled>>
     ELSE IF job[id].status \in {"done", "error"}
     THEN /\ resp' = Response("resume", id, 200, job[id])
          /\ UNCHANGED <<job, settled>>
     ELSE /\ job' = [job EXCEPT ![id] = resumeJob(id)]
          /\ resp' = [Response("resume", id, 200, resumeJob(id)) EXCEPT
                         !.accepted = resumeJob(id).status # job[id].status]
          /\ settled' = [settled EXCEPT ![id] = @ \cup resumeResolves(id)]
  /\ UNCHANGED <<dataVars, jobs, pc, cont, idx, awaiting, rowRcpt, locals, now, histVars>>

\* GET /jobs/:id
StatusRoute(id) ==
  /\ MicroIdle
  /\ resp' = IF id \notin jobs THEN NotFound("status", id)
             ELSE [Response("status", id, 200, job[id]) EXCEPT
                     !.resultReady = job[id].status = "done"]
  /\ UNCHANGED <<dataVars, jobs, job, runnerVars, now, histVars>>


\* mutant of ResultRoute: the payload is served whatever the status
ResultRoute_NoStatusCheck(id) ==
  /\ MicroIdle
  /\ resp' = IF id \notin jobs THEN NotFound("result", id)
             ELSE [Response("result", id, 200, job[id]) EXCEPT !.result = job[id].result]
  /\ UNCHANGED <<dataVars, jobs, job, runnerVars, now, histVars>>

\* GET /jobs/:id/result
ResultRoute(id) ==
  /\ MicroIdle
  /\ resp' = IF id \notin jobs THEN NotFound("result", id)
             ELSE IF job[id].status # "done"
                  THEN [Response("result", id, 400, job[id]) EXCEPT
                          !.error = "Resultado indisponivel."]
             ELSE IF job[id].type = "generate" /\ job[id].result.kind # "generate"
                  THEN [Response("result", id, 400, job[id]) EXCEPT
                          !.error = "Resultado incompleto."]
             ELSE [Response("result", id, 200, job[id]) EXCEPT !.result = job[id].result]
  /\ UNCHANGED <<dataVars, jobs, job, runnerVars, now, histVars>>



\* mutant of Expired: only finished jobs are dropped
Expired_OnlyTerminal(j) ==
  now - job[j].updatedAt > JOB_TTL_MS /\ job[j].status \in {"done", "error"}

\* cleanupJobs: the ids the sweep deletes
Expired(j) == now - job[j].updatedAt > JOB_TTL_MS

\* cleanupJobs, run by the interval timer
cleanupJobs ==
  /\ MicroIdle
  /\ jobs' = {j \in jobs : ~Expired(j)}
  /\ swept' = TRUE
  /\ UNCHANGED <<dataVars, job, runnerVars, now, resp, started, finished, pauseCur, pauseBusy>>

\* the clock advances
Tick ==
  /\ MicroIdle
  /\ now < MaxTime
  /\ now' = now + 1
  /\ swept' = FALSE
  /\ UNCHANGED <<dataVars, jobs, job, runnerVars, resp, started, finished, pauseCur, pauseBusy>>


\* ------------------------------------------------------------ the runners
Set(f, j, v) == [f EXCEPT ![j] = v]

ProcessingMessage(k, n) == "Processando linha " \o ToString(k) \o " de " \o ToString(n) \o "."
SendingMessage(k, n) == "Enviando emails: " \o ToString(k) \o " de " \o ToString(n) \o "."

\* POST /generate-job and POST /send-emails-job with a request that passes the
\* checks and a spreadsheet of n rows: createJob and the call of runGenerateJob /
\* runSendJob up to its first await
CreateJob(type, n) ==
  /\ MicroIdle
  /\ \E j \in JobIds :
       /\ pc[j] = "none"
       /\ \A k \in JobIds : k < j => pc[k] # "none"
       /\ jobs' = jobs \cup {j}
       /\ job' = Set(job, j, touchJob([NewJob(type) EXCEPT
                      !.total = n, !.current = 0,
                      !.message = IF type = "generate" THEN "Gerando documentos."
                                  ELSE "Gerando PDFs."]))
       /\ pc' = Set(pc, j, "loop")
       /\ idx' = Set(idx, j, 0)
       /\ locals' = Set(locals, j, NoLocals)
       /\ resp' = [Response("create", j, 200, job'[j]) EXCEPT !.accepted = TRUE]
  /\ UNCHANGED <<dataVars, cont, awaiting, settled, rowRcpt, now, histVars>>

\* what a create-job request can carry: the uploaded template and spreadsheet
\* (present or not), the `mapping` field ("empty": absent or "[]", both parsed
\* to the empty list; "malformed": not JSON; "valid": a non-empty list), the
\* `emailColumn` field (present or not), and whether the uploads can be read
\* (readRows and extractPlaceholders return) or not (they throw)
Mappings == {"empty", "malformed", "valid"}
Requests ==
  [template : BOOLEAN, excel : BOOLEAN, mapping : Mappings,
   emailColumn : BOOLEAN, readable : BOOLEAN]

\* the body of a 500 answer: err.message of what the try block caught
StartError(type) ==
  IF type = "generate" THEN "Erro ao iniciar geracao" ELSE "Erro ao iniciar envio"


\* mutant of Validate: the email column of a send request is not looked at
Validate_NoEmailColumn(type, req) ==
  IF req.mapping = "malformed" THEN [code |-> 500, error |-> StartError(type)]
  ELSE IF ~req.template THEN [code |-> 400, error |-> "Template faltando."]
  ELSE IF ~req.excel THEN [code |-> 400, error |-> "Planilha faltando."]
  ELSE IF req.mapping = "empty" THEN [code |-> 400, error |-> "Mapping faltando."]
  ELSE IF ~req.readable THEN [code |-> 500, error |-> StartError(type)]
  ELSE [code |-> 200, error |-> ""]

\* POST /generate-job and POST /send-emails-job up to createJob: the answer that
\* ends the handler early (code 200: none, the job is created)
Validate(type, req) ==
  IF req.mapping = "malformed" THEN [code |-> 500, error |-> StartError(type)]
  ELSE IF ~req.template THEN [code |-> 400, error |-> "Template faltando."]
  ELSE IF ~req.excel THEN [code |-> 400, error |-> "Planilha faltando."]
  ELSE IF req.mapping = "empty" THEN [code |-> 400, error |-> "Mapping faltando."]
  ELSE IF type = "send" /\ ~req.emailColumn
       THEN [code |-> 400, error |-> "Defina a coluna de email."]
  ELSE IF ~req.readable THEN [code |-> 500, error |-> StartError(type)]
  ELSE [code |-> 200, error |-> ""]

\* POST /generate-job and POST /send-emails-job
CreateRoute(type, req) ==
  IF Validate(type, req).code = 200
  THEN \E n \in 0..MaxRows : CreateJob(type, n)
  ELSE /\ MicroIdle
       /\ resp' = ErrorResponse("create", 0, Validate(type, req).code,
                                Validate(type, req).error)
       /\ UNCHANGED <<jobs, job, runnerVars, now, histVars, dataVars>>

\* the catch block of runGenerateJob / runSendJob
Catch(j) ==
  /\ job' = Set(job, j, touchJob([job[j] EXCEPT !.status = "error", !.error = "exception"]))
  /\ pc' = Set(pc, j, "finished")



\* mutant of Advance: a row left early (no message) does not advance job.current
Advance_NotOnSkip(jb, k, withMessage) ==
  touchJob([jb EXCEPT !.current = IF withMessage THEN k ELSE @,
                      !.message = IF withMessage THEN ProcessingMessage(k, jb.total) ELSE @])

\* mutant of Advance: job.current is written one row late (idx instead of idx + 1)
Advance_OffByOne(jb, k, withMessage) ==
  touchJob([jb EXCEPT !.current = k - 1,
                      !.message = IF withMessage THEN ProcessingMessage(k, jb.total) ELSE @])

\* job.current = idx + 1 (with or without a progress message); touchJob(job)
Advance(jb, k, withMessage) ==
  touchJob([jb EXCEPT !.current = k,
                      !.message = IF withMessage THEN ProcessingMessage(k, jb.total) ELSE @])


\* mutant of MoreRows: the loop condition is idx <= rows.length
MoreRows_OffByOne(j) == idx[j] <= job[j].total

\* the loop condition idx < rows.length
MoreRows(j) == idx[j] < job[j].total


\* mutant of NextIdx: the loop variable is not advanced
NextIdx_Stuck(i) == i

\* the loop increment idx += 1
NextIdx(i) == i + 1

\* for (idx < rows.length): await waitIfPaused(job)
LoopNext(j) ==
  /\ pc[j] = "loop"
  /\ MoreRows(j)
  /\ waitIfPaused(j, job[j], "row")
  /\ UNCHANGED <<dataVars, jobs, idx, rowRcpt, locals, now, resp, histVars>>

\* a row of the loop, from the row's first statement to its first await
\* (docxBufferToPdf); a send-job row without recipients ends here
RowStart(j) ==
  /\ pc[j] = "row"
  /\ started' = Set(started, j, Append(started[j], idx[j] + 1))
  /\ \E rcpts \in SUBSET Addrs, throws \in BOOLEAN :
       IF throws
       THEN /\ Catch(j)
            /\ UNCHANGED <<idx, rowRcpt, locals, finished>>
       ELSE IF job[j].type = "send" /\ rcpts = {}
       THEN /\ job' = Set(job, j, Advance(job[j], idx[j] + 1, FALSE))
            /\ idx' = Set(idx, j, NextIdx(idx[j]))
            /\ pc' = Set(pc, j, "loop")
            /\ finished' = Set(finished, j, Append(finished[j], idx[j] + 1))
            /\ UNCHANGED <<rowRcpt, locals>>
       ELSE /\ rowRcpt' = Set(rowRcpt, j, rcpts)
            /\ locals' = Set(locals, j,
                 IF job[j].type = "generate"
                 THEN [locals[j] EXCEPT !.zipDocx = @ + 1]
                 ELSE [locals[j] EXCEPT !.recipientCount = @ + Cardinality(rcpts)])
            /\ pc' = Set(pc, j, "converting")
            /\ UNCHANGED <<job, idx, finished>>
  /\ UNCHANGED <<dataVars, jobs, cont, awaiting, settled, now, resp, pauseCur, pauseBusy, swept>>

\* docxBufferToPdf returns (or throws): the rest of the row
ConvertReturn(j) ==
  /\ MicroIdle
  /\ pc[j] = "converting"
  /\ \E pdfValid \in BOOLEAN, throws \in BOOLEAN :
       IF throws
       THEN /\ Catch(j)
            /\ UNCHANGED <<idx, rowRcpt, locals, finished>>
       ELSE /\ locals' = Set(locals, j,
                 IF pdfValid
                 THEN [locals[j] EXCEPT
                         !.zipPdf = IF job[j].type = "generate" THEN @ + 1 ELSE @,
                         !.emailQueue = @ \cup rowRcpt[j]]
                 ELSE [locals[j] EXCEPT
                         !.pdfFailures = IF job[j].type = "send"
                                         THEN @ + Cardinality(rowRcpt[j]) ELSE @])
            /\ job' = Set(job, j, Advance(job[j], idx[j] + 1,
                                          job[j].type = "generate" \/ pdfValid))
            /\ idx' = Set(idx, j, NextIdx(idx[j]))
            /\ rowRcpt' = Set(rowRcpt, j, {})
            /\ pc' = Set(pc, j, "loop")
            /\ finished' = Set(finished, j, Append(finished[j], idx[j] + 1))
  /\ UNCHANGED <<dataVars, jobs, cont, awaiting, settled, now, resp, started, pauseCur, pauseBusy, swept>>

\* runGenerateJob after the loop, up to `await zipDocx.generateAsync`
LoopEndGenerate(j) ==
  /\ pc[j] = "loop"
  /\ ~MoreRows(j)
  /\ job[j].type = "generate"
  /\ job' = Set(job, j, touchJob([job[j] EXCEPT !.message = "Finalizando arquivos."]))
  /\ pc' = Set(pc, j, "zipping")
  /\ UNCHANGED <<dataVars, jobs, cont, idx, awaiting, settled, rowRcpt, locals, now, resp, histVars>>

\* runGenerateJob: the archives are ready; result, done, background dispatch
ZipDone(j) ==
  /\ MicroIdle
  /\ pc[j] = "zipping"
  /\ \E throws \in BOOLEAN :
       IF throws
       THEN Catch(j)
       ELSE /\ job' = Set(job, j, touchJob([job[j] EXCEPT
                        !.result = [NoResult EXCEPT !.kind = "generate",
                                      !.docs = locals[j].zipDocx,
                                      !.pdfs = locals[j].zipPdf,
                                      !.pdfGenerated = locals[j].zipPdf > 0],
                        !.status = "done",
                        !.message = "Concluido."]))
            /\ pc' = Set(pc, j, IF locals[j].emailQueue # {} THEN "mailing" ELSE "finished")
  /\ UNCHANGED <<dataVars, jobs, cont, idx, awaiting, settled, rowRcpt, locals, now, resp, histVars>>


\* mutant of MailingDone: a background dispatch that fails is written to the job
MailingDone_Reported(j) ==
  /\ MicroIdle
  /\ pc[j] = "mailing"
  /\ \E ok \in BOOLEAN :
       job' = Set(job, j, IF ok THEN job[j]
                          ELSE touchJob([job[j] EXCEPT !.status = "error", !.error = "exception",
                                           !.emailFailed = Cardinality(locals[j].emailQueue)]))
  /\ pc' = Set(pc, j, "finished")
  /\ UNCHANGED <<dataVars, jobs, cont, idx, awaiting, settled, rowRcpt, locals, now, resp, histVars>>

\* runGenerateJob: the background dispatch settles; its outcome is only logged
MailingDone(j) ==
  /\ MicroIdle
  /\ pc[j] = "mailing"
  /\ pc' = Set(pc, j, "finished")
  /\ UNCHANGED <<dataVars, jobs, job, cont, idx, awaiting, settled, rowRcpt, locals, now, resp, histVars>>


Modes == {"smtp", "smtp-unconfigured", "outlook", "outlook-unsupported"}


\* mutant of SendDone: a dispatch in which nothing was sent is a job error
SendDone_ErrorWhenNoneSent(jb, r) ==
  touchJob([jb EXCEPT
     !.result = [NoResult EXCEPT !.kind = "send", !.sent = r.sent, !.failed = r.failed],
     !.status = IF r.sent = 0 THEN "error" ELSE "done",
     !.message = "Concluido."])

\* runSendJob: job.result = {sent, failed, ...}; status done
SendDone(jb, r) ==
  touchJob([jb EXCEPT
     !.result = [NoResult EXCEPT !.kind = "send", !.sent = r.sent, !.failed = r.failed],
     !.status = "done",
     !.message = "Concluido."])

\* runSendJob, outlook branch: the counters copied from the dispatcher's result
OutlookCounters(jb, r) ==
  touchJob([jb EXCEPT !.emailSent = r.sent, !.emailFailed = r.failed,
                      !.message = "Envio finalizado."])


\* mutant of LoopEndSend: the queue is not looked at, the job always dispatches
LoopEndSend_AlwaysDispatch(j) ==
  /\ pc[j] = "loop"
  /\ ~MoreRows(j)
  /\ job[j].type = "send"
  /\ waitIfPaused(j,
       touchJob([job[j] EXCEPT
          !.emailTotal = Cardinality(locals[j].emailQueue),
          !.emailSent = 0, !.emailFailed = 0,
          !.message = "Enviando emails."]),
       "dispatch")
  /\ UNCHANGED <<dataVars, jobs, idx, rowRcpt, locals, now, resp, histVars>>

\* runSendJob after the loop, up to `await waitIfPaused(job)`
LoopEndSend(j) ==
  /\ pc[j] = "loop"
  /\ ~MoreRows(j)
  /\ job[j].type = "send"
  /\ IF locals[j].emailQueue = {}
     THEN /\ job' = Set(job, j, touchJob([job[j] EXCEPT
                      !.status = "error",
                      !.error = IF locals[j].recipientCount > 0 /\ locals[j].pdfFailures > 0
                                THEN "PDF nao foi gerado. Verifique o LibreOffice no servidor."
                                ELSE IF locals[j].recipientCount > 0
                                THEN "Nenhum anexo gerado para envio."
                                ELSE "Nenhum destinatario encontrado."]))
          /\ pc' = Set(pc, j, "finished")
          /\ UNCHANGED <<cont, awaiting, settled>>
     ELSE waitIfPaused(j,
            touchJob([job[j] EXCEPT
               !.emailTotal = Cardinality(locals[j].emailQueue),
               !.emailSent = 0, !.emailFailed = 0,
               !.message = "Enviando emails."]),
            "dispatch")
  /\ UNCHANGED <<dataVars, jobs, idx, rowRcpt, locals, now, resp, histVars>>

\* runSendJob: the call of sendEmailsOutlook / sendEmailsSmtp, up to its first
\* await on I/O; the paths that return without I/O end the job here
Dispatch(j) ==
  /\ pc[j] = "dispatch"
  /\ \E mode \in Modes, throws \in BOOLEAN :
       LET n == Cardinality(locals[j].emailQueue)
           allFailed == [sent |-> 0, failed |-> n]
       IN  /\ locals' = Set(locals, j, [locals[j] EXCEPT !.mode = mode])
           /\ IF throws
              THEN Catch(j)
              ELSE IF mode = "outlook-unsupported"
              THEN /\ job' = Set(job, j, SendDone(OutlookCounters(job[j], allFailed), allFailed))
                   /\ pc' = Set(pc, j, "finished")
              ELSE IF mode = "smtp-unconfigured"
              THEN /\ job' = Set(job, j, SendDone(job[j], allFailed))
                   /\ pc' = Set(pc, j, "finished")
              ELSE /\ pc' = Set(pc, j, IF mode = "outlook" THEN "outlook" ELSE "sending")
                   /\ UNCHANGED job
  /\ UNCHANGED <<dataVars, jobs, cont, idx, awaiting, settled, rowRcpt, now, resp, histVars>>

\* sendEmailsOutlook: the PowerShell process ends; runSendJob copies the counts
OutlookReturn(j) ==
  /\ MicroIdle
  /\ pc[j] = "outlook"
  /\ \E s \in 0..Cardinality(locals[j].emailQueue) :
       LET r == [sent |-> s, failed |-> Cardinality(locals[j].emailQueue) - s]
       IN  /\ job' = Set(job, j, SendDone(OutlookCounters(job[j], r), r))
           /\ pc' = Set(pc, j, "finished")
           /\ locals' = Set(locals, j, [locals[j] EXCEPT !.sent = s,
                                          !.processed = Cardinality(locals[j].emailQueue)])
  /\ UNCHANGED <<dataVars, jobs, cont, idx, awaiting, settled, rowRcpt, now, resp, histVars>>

\* sendEmailsSmtp: one sendMail settles; onProgress; after the last one the
\* dispatcher returns and runSendJob stores the result
SmtpReturn(j) ==
  /\ MicroIdle
  /\ pc[j] = "sending"
  /\ \E ok \in BOOLEAN :
       LET n == Cardinality(locals[j].emailQueue)
           nowProcessed == locals[j].processed + 1
           nowSent == locals[j].sent + (IF ok THEN 1 ELSE 0)
           progress == touchJob([job[j] EXCEPT
                          !.emailTotal = n, !.emailSent = nowSent,
                          !.emailFailed = nowProcessed - nowSent,
                          !.message = SendingMessage(nowProcessed, n)])
       IN  /\ locals' = Set(locals, j, [locals[j] EXCEPT !.processed = nowProcessed, !.sent = nowSent])
           /\ IF nowProcessed < n
              THEN /\ job' = Set(job, j, progress)
                   /\ UNCHANGED pc
              ELSE /\ job' = Set(job, j, SendDone(progress, [sent |-> nowSent, failed |-> n - nowSent]))
                   /\ pc' = Set(pc, j, "finished")
  /\ UNCHANGED <<dataVars, jobs, cont, idx, awaiting, settled, rowRcpt, now, resp, histVars>>

\* ------------------------------------------------------- specifications
Runner(j) ==
  \/ Wake(j)
  \/ LoopNext(j)
  \/ RowStart(j)
  \/ ConvertReturn(j)
  \/ LoopEndGenerate(j)
  \/ ZipDone(j)
  \/ MailingDone(j)
  \/ LoopEndSend(j)
  \/ Dispatch(j)
  \/ OutlookReturn(j)
  \/ SmtpReturn(j)

Next ==
  \/ \E type \in Types, n \in 0..MaxRows : CreateJob(type, n)
  \/ \E id \in OneJob : PauseRoute(id)
  \/ \E id \in OneJob : ResumeRoute(id)
  \/ \E id \in OneJob : StatusRoute(id)
  \/ \E id \in OneJob : ResultRoute(id)
  \/ cleanupJobs
  \/ Tick
  \/ \E j \in OneJob : Runner(j)

Spec == Init /\ [][Next]_vars

\* The create-job routes over every request, well-formed or not, with the
\* runners and the pause and resume requests; the clock stands still.
IntakeNext ==
  \/ \E type \in Types, req \in Requests : CreateRoute(type, req)
  \/ \E id \in OneJob : PauseRoute(id)
  \/ \E id \in OneJob : ResumeRoute(id)
  \/ \E j \in OneJob : Runner(j)

IntakeSpec == Init /\ [][IntakeNext]_vars


\* Two jobs side by side: each create request hands out the next id and starts
\* that job's runner; pause and resume requests name either job; the clock
\* stands still and each spreadsheet has PairRows rows.
PairRows == 1
PairStart == ServerStart(TwoJobs)
PairInit == PairStart /\ ChainIdle /\ LoopIdle /\ SendIdle /\ DocIdle
PairNext ==
  \/ \E type \in Types : CreateJob(type, PairRows)
  \/ \E id \in TwoJobs : PauseRoute(id)
  \/ \E id \in TwoJobs : ResumeRoute(id)
  \/ \E j \in TwoJobs : Runner(j)

PairSpec == PairInit /\ [][PairNext]_vars

\* docxBufferToPdf on one document
ChainInit == ServerInit /\ ChainInput /\ LoopIdle /\ SendIdle /\ DocIdle

ChainNext ==
  \/ AwaitMsOffice
  \/ AwaitLibreOffice
  \/ AwaitPuppeteer

ChainSpec == ChainInit /\ [][ChainNext]_vars

\* the row loop of one job, on the contents of its archives and of its queue
LoopInit == ServerInit /\ ChainIdle /\ LoopInput /\ SendIdle /\ DocIdle

LoopStep ==
  \/ \E r \in RowInputs : GenerateRow(r)
  \/ \E r \in RowInputs : SendRow(r)
  \/ RowThrows
  \/ LoopEnd

LoopSpec == LoopInit /\ [][LoopStep]_vars

\* one dispatch, over either transport, on some platform
SendInit ==
  /\ ServerInit
  /\ platform \in Platforms
  /\ produces = [b \in Backends |-> Thrown]
  /\ chainPc = "returned"
  /\ pdfBuffer = Null
  /\ LoopIdle
  /\ SendInput
  /\ DocIdle

SendNext ==
  \/ SmtpCall
  \/ SendMailSettles
  \/ OutlookCall
  \/ PowerShellAccount
  \/ PowerShellItem
  \/ PowerShellCloses

SendSpec == SendInit /\ [][SendNext]_vars

\* resolveRowValues on one row
ResolveInit ==
  /\ ServerInit
  /\ ChainIdle
  /\ LoopIdle
  /\ SendIdle
  /\ ResolveInput
  /\ TemplateIdle
  /\ RenderIdle

ResolveNext == ResolveRow

ResolveSpec == ResolveInit /\ [][ResolveNext]_vars

\* the sanitizer and the extractor on one template
TemplateInit ==
  /\ ServerInit
  /\ ChainIdle
  /\ LoopIdle
  /\ SendIdle
  /\ ResolveIdle
  /\ TemplateInput
  /\ RenderIdle

TemplateNext ==
  \/ SanitizeTemplate
  \/ SanitizeAgain
  \/ ExtractPlaceholders

TemplateSpec == TemplateInit /\ [][TemplateNext]_vars

\* a row of a job rendered, and rendered once more, while the clock runs
RenderInit ==
  /\ ServerInit
  /\ ChainIdle
  /\ LoopIdle
  /\ SendIdle
  /\ RenderInput

RenderNext ==
  \/ BuildData
  \/ RenderDoc
  \/ RenderDocAgain
  \/ Tick

RenderSpec == RenderInit /\ [][RenderNext]_vars

\* ------------------------------------------------------------ the claims
Terminal(j) == job[j].status \in {"done", "error"}

\* C1: once a job's status is done or error it never changes again: no runner
\* step changes it, and a pause or resume request on such a job changes no field
\* of the job and answers with the current status.
C1_TerminalIsFinal ==
  [][\A j \in JobIds :
       Terminal(j) =>
         /\ job'[j].status = job[j].status
         /\ (PauseRoute(j) \/ ResumeRoute(j)) =>
              /\ job'[j] = job[j]
              /\ (j \in jobs => (resp'.code = 200 /\ resp'.status = job[j].status))]_vars

\* a resume request was answered for a job that finished while its pause flag was set
C1_Witness ==
  \E j \in JobIds :
    /\ job[j].status = "done" /\ job[j].paused
    /\ resp.op = "resume" /\ resp.id = j /\ resp.code = 200 /\ resp.status = "done"

\* C2: every change of a job's status is running->paused by a pause request,
\* paused->running by a resume request, running->done by the runner after all
\* rows, or running->error / paused->error by the runner; in particular paused
\* never becomes done without a resume in between.  (The status of a new job
\* is set by its creation.)
C2_StatusTransitions ==
  [][\A j \in JobIds :
       job'[j].status # job[j].status =>
         \/ job[j].status = "none" /\ job'[j].status = "running"
         \/ job[j].status = "running" /\ job'[j].status = "paused" /\ PauseRoute(j)
         \/ job[j].status = "paused" /\ job'[j].status = "running" /\ ResumeRoute(j)
         \/ /\ job[j].status = "running" /\ job'[j].status = "done"
            /\ Runner(j)
            /\ Len(finished'[j]) = job[j].total
         \/ /\ job[j].status \in {"running", "paused"} /\ job'[j].status = "error"
            /\ Runner(j)]_vars

\* a row of job j is in flight: its loop body began and has not ended
InFlight(j) == Len(started[j]) > Len(finished[j])

\* C3: after a pause is accepted on a running job the runner starts no new row
\* until a resume is accepted; the row in flight at the pause, if any, is not
\* aborted (it stays in conversion until it completes), so `current` grows by
\* at most one while the job stays paused.
C3_PauseHoldsRows ==
  /\ [](\A j \in JobIds :
          job[j].status = "paused" =>
            /\ job[j].current <= pauseCur[j] + 1
            /\ (job[j].current = pauseCur[j] + 1 => pauseBusy[j])
            /\ Len(started[j]) = pauseCur[j] + (IF pauseBusy[j] THEN 1 ELSE 0)
            /\ (InFlight(j) => pc[j] = "converting"))
  /\ [][\A j \in JobIds :
          job[j].status = "paused" => Len(started'[j]) = Len(started[j])]_vars

\* the row in flight at the pause has completed and the runner is held at the
\* next row's checkpoint, with rows left to process
C3_Witness ==
  \E j \in JobIds :
    /\ job[j].status = "paused" /\ pc[j] = "blocked" /\ cont[j] = "row"
    /\ pauseBusy[j] /\ job[j].current = pauseCur[j] + 1
    /\ job[j].current < job[j].total

\* a resume request is accepted on job j in this step
ResumeAccepted(j) == job[j].status = "paused" /\ job'[j].status = "running"

\* C4 as stated: when a paused job is resumed, `current` is what it was when the
\* pause was accepted, and it is the number of rows processed so far.
C4_CurrentUnchangedAcrossPause ==
  [][\A j \in JobIds :
       ResumeAccepted(j) =>
         /\ job'[j].current = pauseCur[j]
         /\ job'[j].current = Len(finished'[j])]_vars

\* C4 amended: when a paused job is resumed, `current` is what it was when the
\* pause was accepted, or one more when a row was in flight at the pause and
\* has completed meanwhile; it is the number of rows processed so far.
C4_CurrentAcrossPause ==
  [][\A j \in JobIds :
       ResumeAccepted(j) =>
         /\ job'[j].current \in {pauseCur[j], pauseCur[j] + 1}
         /\ (job'[j].current = pauseCur[j] + 1 => pauseBusy[j])
         /\ job'[j].current = Len(finished'[j])]_vars

\* a resume was just accepted (its wake-up is still pending) after the row in
\* flight at the pause had completed
C4_Witness ==
  \E j \in JobIds :
    /\ Woken(j) /\ job[j].status = "running"
    /\ pauseBusy[j] /\ job[j].current = pauseCur[j] + 1

\* C5: within one job the rows are processed one at a time in dataset order: a
\* row starts only when the row before it has ended, `current` never decreases
\* and steps through 0, 1, ..., and no row is processed twice, whatever pause
\* and resume requests arrive.
C5_RowsInOrder ==
  /\ [](\A j \in JobIds :
          /\ started[j] = [i \in 1..Len(started[j]) |-> i]
          /\ Len(started[j]) <= job[j].total
          /\ Len(finished[j]) \in {Len(started[j]), Len(started[j]) - 1}
          /\ finished[j] = SubSeq(started[j], 1, Len(finished[j])))
  /\ [][\A j \in JobIds :
          /\ job'[j].current \in {job[j].current, job[j].current + 1}
          /\ (started'[j] # started[j] => ~InFlight(j))]_vars

\* both rows of a two-row job were processed and the job was paused and resumed
C5_Witness ==
  \E j \in JobIds :
    /\ finished[j] = <<1, 2>> /\ job[j].current = 2
    /\ resp.op = "resume" /\ resp.id = j /\ resp.accepted

\* C6: in every reachable state of every job, 0 <= current <= total.
C6_CurrentWithinTotal ==
  \A j \in JobIds : 0 <= job[j].current /\ job[j].current <= job[j].total

\* the last row of a job with rows has been counted
C6_Witness ==
  \E j \in JobIds : job[j].total > 0 /\ job[j].current = job[j].total

\* The runner's steps are continuations of promises and completions of
\* conversion, archive and send calls: under the assumption that every such
\* call returns, a runner step that stays possible is eventually taken.
LiveSpec == Spec /\ \A j \in OneJob : WF_vars(Runner(j))

\* C7: no work is lost by pausing: if every pause is eventually followed by a
\* resume (and every conversion/send call returns: LiveSpec), every job reaches
\* done or error; the resume that ends a pause releases a runner blocked at a
\* checkpoint; and a job that is done has processed every one of its rows.
C7_NoWorkLost ==
  /\ (\A j \in OneJob : [](job[j].status = "paused" => <>(job[j].status # "paused")))
       => (\A j \in OneJob : [](pc[j] # "none" => <>Terminal(j)))
  /\ [][\A j \in JobIds :
          (ResumeAccepted(j) /\ pc[j] = "blocked") => Woken(j)']_vars
  /\ [](\A j \in JobIds :
          job[j].status = "done" =>
            /\ Len(finished[j]) = job[j].total
            /\ job[j].current = job[j].total)

\* a runner blocked at a row checkpoint has just been released by a resume,
\* with rows still to process
C7_Witness ==
  \E j \in JobIds :
    /\ Woken(j) /\ cont[j] = "row" /\ job[j].status = "running"
    /\ job[j].current < job[j].total

\* C8: pause and resume are idempotent: a resume request on a job that is not
\* paused and a pause request on a paused job change nothing but the response
\* (no field of the job, no second signal, nothing of the runner), so
\* pause;pause;resume acts as pause;resume; an accepted resume leaves no signal
\* armed and releases a blocked runner.
C8_Idempotent ==
  [][\A j \in JobIds :
       /\ (ResumeRoute(j) /\ j \in jobs /\ ~job[j].paused) =>
            UNCHANGED <<jobs, job, runnerVars, now, histVars>>
       /\ (PauseRoute(j) /\ j \in jobs /\ job[j].status = "paused") =>
            UNCHANGED <<jobs, job, runnerVars, now, histVars>>
       /\ ResumeAccepted(j) =>
            /\ job'[j].pausePromise = 0 /\ job'[j].resume = 0
            /\ ~job'[j].paused
            /\ (pc[j] = "blocked" => Woken(j)')]_vars

\* a second pause request was answered, later than the first, while the runner
\* was blocked; the job was not touched by it
C8_Witness ==
  \E j \in JobIds :
    /\ pc[j] = "blocked" /\ job[j].status = "paused"
    /\ resp.op = "pause" /\ resp.id = j /\ resp.code = 200 /\ ~resp.accepted
    /\ job[j].updatedAt < now

\* C9: after a sweep no job whose updatedAt is older than the retention window
\* remains in the registry, whatever its status, and status, result, pause and
\* resume requests for an id that is not in the registry answer not-found; a
\* job whose updatedAt is within the window is never removed.
C9_SweepEvictsStale ==
  /\ [](swept => \A j \in jobs : now - job[j].updatedAt <= JOB_TTL_MS)
  /\ [][/\ \A j \in jobs : now - job[j].updatedAt <= JOB_TTL_MS => j \in jobs'
        /\ \A id \in JobIds :
             (id \notin jobs /\ (StatusRoute(id) \/ ResultRoute(id)
                                   \/ PauseRoute(id) \/ ResumeRoute(id)))
               => resp'.code = 404]_vars

\* a paused job with a blocked runner was swept, and a resume request for its
\* id was answered not-found
C9_Witness ==
  \E j \in JobIds :
    /\ swept /\ job[j].status = "paused" /\ pc[j] = "blocked" /\ j \notin jobs
    /\ now - job[j].updatedAt > JOB_TTL_MS
    /\ resp.op = "resume" /\ resp.id = j /\ resp.code = 404

\* C10: the result of a job is served only while its status is done (for a
\* running, paused or error job the result request is rejected); a job in
\* error has no result payload; `resultReady` of the status snapshot is true
\* exactly when the status is done; a done job has its payload.
C10_ResultOnlyWhenDone ==
  /\ \A j \in JobIds :
       /\ job[j].status = "error" => job[j].result = NoResult
       /\ job[j].status = "done" => job[j].result.kind = job[j].type
  /\ resp.op = "result" =>
       /\ resp.code = 200 => (resp.status = "done" /\ resp.result # NoResult)
       /\ resp.status \in {"running", "paused", "error"} =>
            (resp.code = 400 /\ resp.result = NoResult)
  /\ (resp.op = "status" /\ resp.code = 200) =>
       (resp.resultReady <=> resp.status = "done")

\* the result of a done job was served
C10_Witness ==
  \E j \in JobIds :
    /\ job[j].status = "done" /\ job[j].current > 0
    /\ resp.op = "result" /\ resp.id = j /\ resp.code = 200
    /\ resp.result = job[j].result

\* a create-job request is answered with an error in this step
CreateRejected == resp' # resp /\ resp'.op = "create" /\ resp'.code # 200

\* C11: a create-job request without template, without spreadsheet, without a
\* non-empty mapping or (send jobs) without the email column is answered with
\* an error code and an error text (no step that handles such a request
\* answers it otherwise), and a step that answers a create-job request with an
\* error changes neither the registry nor any job nor any runner: no job is
\* created and no runner is started.
C11_RejectedCreatesNothing ==
  [][/\ (resp' # resp /\ resp'.op = "create" /\ ~CreateRejected) =>
          \A type \in Types, req \in Requests :
            ( \/ ~req.template \/ ~req.excel \/ req.mapping = "empty"
              \/ type = "send" /\ ~req.emailColumn )
            => ~CreateRoute(type, req)
     /\ CreateRejected =>
          /\ resp'.code \in {400, 500} /\ resp'.error # ""
          /\ UNCHANGED <<jobs, job, runnerVars>>
     /\ jobs' \ jobs # {} => (resp'.op = "create" /\ resp'.code = 200)]_vars

\* a send request without the email column was rejected while a job was running
C11_Witness ==
  /\ resp.op = "create" /\ resp.code = 400 /\ resp.error = "Defina a coluna de email."
  /\ \E j \in jobs : job[j].status = "running" /\ pc[j] = "converting"

\* the backends tried before backend b
Earlier(b) ==
  IF b = "msoffice" THEN {}
  ELSE IF b = "libreoffice" THEN {"msoffice"}
  ELSE {"msoffice", "libreoffice"}

\* C12: when the chain has returned, if some backend returns a verified PDF
\* for the document and every backend before it fails (returns null) or returns
\* a result without the PDF signature, the chain's result is that backend's PDF.
C12_FirstVerifiedResult ==
  chainPc = "returned" =>
    \A b \in Backends :
      ( /\ isPdfBuffer(Returned(b))
        /\ \A e \in Earlier(b) : ~isPdfBuffer(Returned(e)) )
      => pdfBuffer = Returned(b)

\* the row loop of job j is over and every conversion it made yielded no
\* verified PDF (there was at least one)
AllConversionsFailed(j) ==
  /\ idx[j] = job[j].total
  /\ \/ job[j].type = "generate" /\ job[j].total > 0 /\ locals[j].zipPdf = 0
     \/ job[j].type = "send" /\ locals[j].pdfFailures > 0 /\ locals[j].emailQueue = {}

\* C13: a job, generate or send, in which every conversion failed for every
\* row (and nothing threw) ends with status done and has sent no email.
C13_AllFailedStillDone ==
  \A j \in JobIds :
    (pc[j] = "finished" /\ job[j].error # "exception" /\ AllConversionsFailed(j)) =>
      /\ job[j].status = "done"
      /\ locals[j].emailQueue = {} /\ locals[j].processed = 0

\* row i of the dataset got a verified PDF
Verified(i) == isPdfBuffer(rows[i].pdfBuffer)

\* the rows whose document (PDF, attachment) an archive or a queue entry holds
RowsIn(zip) == {zip[n] : n \in DOMAIN zip}
RowsOf(entry) == {entry.attachments[a].row : a \in 1..Len(entry.attachments)}

\* C14: in a generate job a row whose conversion yields no verified PDF has
\* its document in the document archive, nothing in the PDF archive and no
\* attachment in any queue entry; processing it leaves the job running (only
\* a thrown exception ends the loop in error) and leaves the PDF archive, the
\* queue, the per-recipient names and every earlier document as they were.
C14_UnconvertedRowKeepsDocument ==
  /\ [](loopType = "generate" =>
          \A i \in 1..Len(rows) :
            ~Verified(i) =>
              /\ i \in RowsIn(zipDocx)
              /\ i \notin RowsIn(zipPdf)
              /\ \A e \in 1..Len(emailQueue) : i \notin RowsOf(emailQueue[e]))
  /\ [][(loopType = "generate" /\ Len(rows') = Len(rows) + 1 /\ ~isPdfBuffer(rows'[Len(rows')].pdfBuffer)) =>
          /\ outcome' = "running"
          /\ zipPdf' = zipPdf
          /\ emailQueue' = emailQueue
          /\ usedNamesByRecipient' = usedNamesByRecipient
          /\ \A n \in DOMAIN zipDocx : n \in DOMAIN zipDocx' /\ zipDocx'[n] = zipDocx[n]]_vars
  /\ [][outcome' = "error" /\ loopType = "generate" => rows' = rows]_vars

\* a generate job is done; its first row was converted and queued, its second
\* row, which names recipients, was not converted and is only in the
\* document archive
C14_Witness ==
  /\ loopType = "generate" /\ outcome = "done" /\ Len(rows) = 2
  /\ Verified(1) /\ ~Verified(2) /\ rows[2].recipients # <<>>
  /\ rows[2].pdfBuffer # Null
  /\ RowsIn(zipDocx) = {1, 2} /\ RowsIn(zipPdf) = {1}
  /\ emailQueue # <<>>

\* the candidate names of the document of a row whose name is `filename`
Candidate(filename, k) == replaceExt(filename, DotDocx, Suffix(k) \o DotDocx)

\* C15: in a generate job over N rows the document archive has exactly N
\* entries, one per row (so their names are pairwise distinct), whatever names
\* the name template yields; the entry of a row has the row's own name if no
\* earlier row took it, else the name with the least suffix _2, _3, ... that no
\* earlier row took.
C15_DistinctDocumentNames ==
  loopType = "generate" =>
    /\ Cardinality(DOMAIN zipDocx) = Len(rows)
    /\ usedNames = DOMAIN zipDocx
    /\ \A i \in 1..Len(rows) :
         LET filename == withDocx(rows[i].filename)
             earlier == {n \in DOMAIN zipDocx : zipDocx[n] < i}
             mine == {n \in DOMAIN zipDocx : zipDocx[n] = i}
         IN  /\ Cardinality(mine) = 1
             /\ \A name \in mine :
                  IF filename \notin earlier THEN name = filename
                  ELSE \E k \in 2..(i + 1) :
                         /\ name = Candidate(filename, k)
                         /\ \A m \in 2..(k - 1) : Candidate(filename, m) \in earlier

\* three rows with colliding names: the second row is named a_2 by the
\* template, the third collides with both and is stored as a_3.docx
C15_Witness ==
  /\ loopType = "generate" /\ Len(rows) = 3
  /\ rows[2].filename = <<"a", "_", "2">>
  /\ rows[1].filename = rows[3].filename
  /\ <<"a", "_", "3", ".", "d", "o", "c", "x">> \in DOMAIN zipDocx
  /\ zipDocx[<<"a", "_", "3", ".", "d", "o", "c", "x">>] = 3

\* the keys (addresses in small letters) row i names
KeysOf(i) == {toLowerCase(rows[i].recipients[a]) : a \in 1..Len(rows[i].recipients)}

\* C16: the email queue holds exactly one entry for each address, compared
\* without regard to case, that some row with a verified conversion names,
\* and the entry holds exactly one attachment for each such row, in row order
\* (so a row that names the address twice contributes once).
C16_OneEntryPerRecipient ==
  /\ {emailQueue[e].key : e \in 1..Len(emailQueue)} =
       UNION {KeysOf(i) : i \in {r \in 1..Len(rows) : Verified(r)}}
  /\ \A e, f \in 1..Len(emailQueue) :
       /\ e # f => emailQueue[e].key # emailQueue[f].key
       /\ toLowerCase(emailQueue[e].to) = emailQueue[e].key
  /\ \A e \in 1..Len(emailQueue) :
       LET att == emailQueue[e].attachments
       IN  /\ RowsOf(emailQueue[e]) =
                {i \in 1..Len(rows) : Verified(i) /\ emailQueue[e].key \in KeysOf(i)}
           /\ \A a, b \in 1..Len(att) : a < b => att[a].row < att[b].row

\* the loop is over; one address, spelled in two ways in the first row, has
\* the attachments of rows 1 and 3, the row between them was not converted
C16_Witness ==
  /\ outcome \in {"done", "dispatch"} /\ Len(rows) = 3
  /\ Len(rows[1].recipients) = 2 /\ Cardinality(KeysOf(1)) = 1
  /\ Verified(1) /\ ~Verified(2) /\ rows[2].recipients # <<>> /\ Verified(3)
  /\ \E e \in 1..Len(emailQueue) :
       /\ emailQueue[e].key \in KeysOf(1)
       /\ RowsOf(emailQueue[e]) = {1, 3} /\ Len(emailQueue[e].attachments) = 2

\* the name under which the PDF of row i is handed to the queue
AttachmentNameOf(i) ==
  normalizePdfFilename(
    IF loopType = "generate"
    THEN replaceExt(CHOOSE n \in DOMAIN zipDocx : zipDocx[n] = i, DotDocx, DotPdf)
    ELSE replaceExt(withDocx(rows[i].filename), DotDocx, DotPdf))

\* the candidate names of an attachment whose name is `filename`
AttachmentCandidate(filename, k) ==
  replaceExt(filename, DotPdf, <<>>) \o Suffix(k) \o DotPdf

\* C17: within one queue entry the attachment names are pairwise distinct
\* without regard to case; an attachment has the name of its PDF if that name
\* is not used earlier in the same entry, else that name with the least suffix
\* _2, _3, ... before .pdf that is not used earlier in the same entry: the
\* names in other entries play no part.
C17_DistinctAttachmentNames ==
  \A e \in 1..Len(emailQueue) :
    LET att == emailQueue[e].attachments
        lower(a) == toLowerCase(att[a].filename)
    IN  /\ \A a, b \in 1..Len(att) : a # b => lower(a) # lower(b)
        /\ Get(usedNamesByRecipient, emailQueue[e].key, {}) = {lower(a) : a \in 1..Len(att)}
        /\ \A a \in 1..Len(att) :
             LET filename == AttachmentNameOf(att[a].row)
                 earlier == {lower(b) : b \in 1..(a - 1)}
             IN  IF toLowerCase(filename) \notin earlier THEN att[a].filename = filename
                 ELSE \E k \in 2..(a + 1) :
                        /\ att[a].filename = AttachmentCandidate(filename, k)
                        /\ \A m \in 2..(k - 1) :
                             toLowerCase(AttachmentCandidate(filename, m)) \in earlier

\* one recipient has a.pdf and, for a later row, A_2.pdf (A.pdf collides with
\* a.pdf); another recipient, named only in the later row, has A.pdf
C17_Witness ==
  \E e, f \in 1..Len(emailQueue) :
    /\ e # f
    /\ Len(emailQueue[e].attachments) = 2
    /\ emailQueue[e].attachments[1].filename = <<"a", ".", "p", "d", "f">>
    /\ emailQueue[e].attachments[2].filename = <<"A", "_", "2", ".", "p", "d", "f">>
    /\ Len(emailQueue[f].attachments) = 1
    /\ emailQueue[f].attachments[1].filename = <<"A", ".", "p", "d", "f">>
    /\ emailQueue[f].attachments[1].row = emailQueue[e].attachments[2].row

\* the items of the queue a dispatch is about
Items == 1..Len(queue)

\* C18 (as stated): in a dispatch every queued recipient is attempted exactly
\* once and one at a time, a failed send is recorded and the remaining
\* recipients are still attempted, and at the end sent + failed is the number
\* of queued recipients.
C18_EveryRecipientAttemptedOnce ==
  /\ Cardinality(inFlight) <= 1
  /\ sendPc = "returned" =>
       /\ \A i \in Items : attempts[i] = 1
       /\ result.sent + result.failed = Len(queue)

\* C18 (amended): in a dispatch no recipient is attempted more than once and at
\* most one send is in flight; whenever the dispatcher returns, sent + failed
\* is the number of queued recipients; over a configured SMTP transport every
\* queued recipient is attempted exactly once whatever the outcome of the
\* earlier sends, each outcome is recorded in queue order, and sent counts the
\* sends that succeeded; when SMTP is not configured no recipient is attempted.
C18_SequentialDispatch ==
  /\ Cardinality(inFlight) <= 1
  /\ \A i \in Items : attempts[i] <= 1
  /\ inFlight \subseteq {cursor}
  /\ sendPc = "returned" =>
       /\ result.sent + result.failed = Len(queue)
       /\ inFlight = {}
       /\ (emailMode = "smtp" /\ smtpOptions) =>
            /\ \A i \in Items : attempts[i] = 1
            /\ Len(result.results) = Len(queue)
            /\ \A i \in Items :
                 /\ result.results[i].to = queue[i].to
                 /\ result.results[i].status = IF i \in refused THEN "failed" ELSE "sent"
            /\ Len(result.errors) = Cardinality(refused)
            /\ result.sent = Len(queue) - Cardinality(refused)
       /\ (emailMode = "smtp" /\ ~smtpOptions) => \A i \in Items : attempts[i] = 0

\* a dispatch over a configured SMTP transport has returned: the first of three
\* sends failed, the other two were attempted and succeeded
C18_Witness ==
  /\ sendPc = "returned" /\ emailMode = "smtp" /\ smtpOptions
  /\ Len(queue) = 3 /\ refused = {1}
  /\ attempts = <<1, 1, 1>>
  /\ result.sent = 2 /\ result.failed = 1

\* C19: for either transport and on every path the value the dispatcher
\* returns has the counts sent and failed and a per-recipient list with exactly
\* one line (recipient, file names, status, error) for each queued recipient.
C19_ResultListOnEveryPath ==
  sendPc = "returned" =>
    /\ {"sent", "failed", "results"} \subseteq DOMAIN result
    /\ Len(result.results) = Len(queue)
    /\ \A i \in Items :
         /\ DOMAIN result.results[i] = {"to", "filename", "status", "error"}
         /\ result.results[i].to = queue[i].to

\* C20: when the Outlook transport is selected on a platform other than
\* Windows the dispatcher returns at once, without a send attempted for any
\* recipient, with sent = 0, failed = the number of queued recipients and the
\* error that says that Outlook is available on Windows only.
C20_OutlookUnsupported ==
  /\ [](emailMode = "outlook" /\ platform # "win32" =>
          /\ sendPc \in {"called", "returned"}
          /\ \A i \in Items : attempts[i] = 0
          /\ sendPc = "returned" =>
               /\ result.sent = 0
               /\ result.failed = Len(queue)
               /\ result.errors = <<"Outlook disponivel apenas no Windows.">>)
  /\ [][emailMode = "outlook" /\ platform # "win32" /\ sendPc = "called" =>
          sendPc' = "returned"]_vars

\* the Outlook dispatcher has returned on Linux for a queue of three
C20_Witness ==
  /\ emailMode = "outlook" /\ platform = "linux" /\ sendPc = "returned"
  /\ Len(queue) = 3
  /\ result.failed = 3

C29_TouchedOnEveryMutation ==
  /\ [][\A j \in JobIds :
          /\ (j \in jobs /\ job'[j] # job[j]) => (job'[j].updatedAt = now /\ now' = now)
          /\ (j \in jobs' \ jobs) => job'[j].updatedAt = now']_vars
  /\ [](\A j \in jobs : job[j].updatedAt <= now)

\* after the clock has advanced a job with rows done has been paused: its
\* updatedAt is the current time
C29_Witness ==
  \E j \in jobs :
    /\ now > 0 /\ job[j].updatedAt = now
    /\ job[j].status = "paused" /\ job[j].current > 0
    /\ resp.op = "pause" /\ resp.code = 200

\* what the mapping and the row say of entry i: its key, the text of its cell,
\* whether the cell has data, the value the cell is compared by
KeyOf(i) == stripBraces(mapping[i].placeholder)
ValueOf(i) == sanitizeCellValue(rowData[mapping[i].column])
HasData(i) == trim(ValueOf(i)) # <<>>
Normalized(i) == toLowerCase(trim(ValueOf(i)))

\* entry i repeats the value of an earlier entry of its group
Duplicate(i) ==
  /\ HasData(i)
  /\ mapping[i].group # <<>>
  /\ \E j \in 1..(i - 1) :
       /\ mapping[j].group = mapping[i].group
       /\ HasData(j)
       /\ Normalized(j) = Normalized(i)

\* entry i is present: its cell has data and it is no duplicate
Present(i) == HasData(i) /\ ~Duplicate(i)

\* C22: among the entries of a row that share a non-empty group, an entry
\* whose value (trimmed, without regard to case) is that of an earlier entry of
\* the group resolves to the empty text although its cell has data; every
\* other entry whose cell has data keeps its value (the resolved text ends
\* with it), whatever entries of other groups or without a group hold.
C22_GroupDuplicatesSuppressed ==
  resolvePc = "returned" =>
    /\ DOMAIN values = {KeyOf(i) : i \in 1..Len(mapping)}
    /\ \A i \in 1..Len(mapping) :
         /\ Duplicate(i) => values[KeyOf(i)] = <<>>
         /\ ~HasData(i) => values[KeyOf(i)] = <<>>
         /\ Present(i) => /\ values[KeyOf(i)] # <<>>
                          /\ endsWith(values[KeyOf(i)], ValueOf(i))

\* the second entry of group g repeats, in small letters and with a blank, the
\* value of the first and is suppressed; the third entry, of group h, has the
\* same value and keeps it
C22_Witness ==
  /\ resolvePc = "returned" /\ Len(mapping) = 3
  /\ mapping[1].group = <<"g">> /\ mapping[2].group = <<"g">> /\ mapping[3].group = <<"h">>
  /\ ValueOf(1) = <<"A">> /\ ValueOf(2) = <<"a", " ">> /\ ValueOf(3) = <<"A">>
  /\ values[KeyOf(1)] # <<>> /\ values[KeyOf(2)] = <<>> /\ values[KeyOf(3)] # <<>>

\* the present entries of the group of entry i before it, and after it
PresentBefore(i) ==
  {j \in 1..(i - 1) : mapping[j].group = mapping[i].group /\ Present(j)}
PresentAfter(i) ==
  {j \in (i + 1)..Len(mapping) : mapping[j].group = mapping[i].group /\ Present(j)}

\* C23: a present entry of a group resolves to its prefix and value, preceded
\* by nothing if it is the first (or only) present entry of the group, by the
\* separator ", " if present entries of the group come before and after it,
\* and by the conjunction " e " if it is the last of several and has a prefix
\* (" e" if the prefix itself begins with a blank); so three present entries
\* read p1A, p2B e p3C.  Only present entries count: empty and suppressed
\* entries of the group shift nothing.
C23_ListFormatting ==
  resolvePc = "returned" =>
    \A i \in 1..Len(mapping) :
      (Present(i) /\ mapping[i].group # <<>>) =>
        LET prefix == mapping[i].prefix
            text == values[KeyOf(i)]
        IN  IF PresentBefore(i) = {} THEN text = prefix \o ValueOf(i)
            ELSE IF PresentAfter(i) # {} THEN text = <<",", " ">> \o prefix \o ValueOf(i)
            ELSE prefix # <<>> =>
                   text = <<" ", "e">>
                            \o (IF startsWithSpace(prefix) THEN prefix ELSE <<" ">> \o prefix)
                            \o ValueOf(i)

\* three present entries of one group, with prefixes p1, " p2" and p3 and
\* values A, B and C: p1A, then ", " p2B, then " e p3C"
C23_Witness ==
  /\ resolvePc = "returned" /\ Len(mapping) = 3
  /\ \A i \in 1..3 : mapping[i].group = <<"g">> /\ mapping[i].prefix # <<>>
  /\ values[KeyOf(1)] = <<"p", "1", "A">>
  /\ values[KeyOf(2)] = <<",", " ", " ", "p", "2", "B">>
  /\ values[KeyOf(3)] = <<" ", "e", " ", "p", "3", "C">>

\* C24: for a group of exactly three present entries without prefixes and
\* with values A, B and C, the resolved texts, in declaration order, read
\* A, B e C: ", " before the second value and " e " before the third.
C24_ConjunctionSpaced ==
  resolvePc = "returned" =>
    \A g \in Groups \ {<<>>} :
      LET members == {i \in 1..Len(mapping) : mapping[i].group = g /\ Present(i)}
      IN  (Cardinality(members) = 3 /\ \A i \in members : mapping[i].prefix = <<>>) =>
            \A i \in members :
              values[KeyOf(i)] =
                (IF PresentBefore(i) = {} THEN <<>>
                 ELSE IF PresentAfter(i) # {} THEN <<",", " ">>
                 ELSE <<" ", "e", " ">>) \o ValueOf(i)

\* the template without inserted tags is one the sanitizer leaves as it is, with
\* every placeholder written `{{name}}`
WellFormed(xml) == sanitizeTemplateBuffer(xml) = xml /\ extractPlaceholders(xml) # <<>>

\* C26: when markup tags are inserted inside or around the delimiters of the
\* placeholders of a template, sanitization followed by extraction yields the
\* placeholder names of the template without the tags.
C26_SplitDelimitersRecovered ==
  templatePc = "extracted" /\ WellFormed(untagged)
    => placeholders = extractPlaceholders(untagged)

\* C27: sanitization is idempotent: sanitizing what the sanitizer returned
\* returns it unchanged.
C27_SanitizeIdempotent ==
  templatePc \in {"resanitized", "extracted"} => again = cleaned

\* every match of the placeholder pattern in plain, in order
RECURSIVE Occurrences(_, _)
Occurrences(plain, from) ==
  IF matchFrom(plain, from).index = 0 THEN <<>>
  ELSE <<matchFrom(plain, from).name>> \o Occurrences(plain, matchFrom(plain, from).end)

Tokens == Occurrences(stripTags(cleaned), 1)

\* the place of the first occurrence of a name among the tokens
First(name) == CHOOSE k \in 1..Len(Tokens) :
                 Tokens[k] = name /\ \A l \in 1..(k - 1) : Tokens[l] # name

\* C28: the extractor returns every name that occurs in the sanitized template,
\* each of them once, in the order of their first occurrences.
C28_DistinctNamesInOrder ==
  templatePc = "extracted" =>
    /\ {placeholders[n] : n \in 1..Len(placeholders)} = {Tokens[k] : k \in 1..Len(Tokens)}
    /\ \A m, n \in 1..Len(placeholders) :
         m < n => /\ placeholders[m] # placeholders[n]
                  /\ First(placeholders[m]) < First(placeholders[n])

\* a name occurs twice, after another name's first occurrence
C28_Witness ==
  /\ templatePc = "extracted"
  /\ Len(Tokens) = 3
  /\ Tokens[1] = Tokens[3]
  /\ placeholders = <<Tokens[1], Tokens[2]>>
  /\ Tokens[1] # Tokens[2]

\* the names the route extracted from the template, and the mapping entries
\* that write the key of entry n of the row's data
Known == {placeholders[n] : n \in 1..Len(placeholders)}
Writers(n) == {i \in 1..Len(mapping) : stripBraces(mapping[i].placeholder) = renderData[n].key}
LastCell(n) ==
  sanitizeCellValue(rowData[mapping[CHOOSE i \in Writers(n) : \A l \in Writers(n) : l <= i].column])

\* the row's data has a key for every placeholder and for every mapping entry,
\* and holds "" where no entry maps the key or the entry's cell is blank
DataCoversKnownNames ==
  renderPc \in {"data", "rendered", "rendered twice"} =>
    /\ \A ph \in Known : \E n \in 1..Len(renderData) : renderData[n].key = ph
    /\ \A i \in 1..Len(mapping) :
         \E n \in 1..Len(renderData) : renderData[n].key = stripBraces(mapping[i].placeholder)
    /\ \A n \in 1..Len(renderData) :
         Writers(n) = {} \/ trim(LastCell(n)) = <<>> => renderData[n].val = <<>>

\* C25: the data given to the renderer covers every placeholder of the template
\* and every mapping entry (with "" for the absent and the unmapped), and the
\* rendered document holds no `{{name}}` for a placeholder name of the template.
C25_NoPlaceholderLeft ==
  /\ DataCoversKnownNames
  /\ renderPc \in {"rendered", "rendered twice"} =>
       \A ph \in Known : indexOf(rendered.xml, Token(ph), 1) = 0

\* C30: rendering the same template with the same values twice gives the same
\* bytes, whatever the clock shows at each of the two calls.
C30_RenderingDeterministic ==
  renderPc = "rendered twice" => renderedAgain = rendered

\* C35: a job whose status is done has current = total: every row, the rows a
\* send job leaves early for lack of recipients or of a PDF included, advanced
\* current before the job completed.
C35_DoneMeansAllRows ==
  \A j \in JobIds : pc[j] # "none" /\ job[j].status = "done" => job[j].current = job[j].total

\* a send job is done after a row without recipients and a row without a PDF
C35_Witness ==
  \E j \in jobs :
    /\ job[j].type = "send" /\ job[j].status = "done"
    /\ job[j].total = 2 /\ job[j].current = 2
    /\ locals[j].pdfFailures > 0

\* the runner of send job j has ended and nothing it called threw
SendEnded(j) ==
  pc[j] = "finished" /\ job[j].type = "send" /\ job[j].error # "exception"

Outcome(jb) == <<jb.status, jb.error, jb.result, jb.emailTotal, jb.emailSent, jb.emailFailed>>

\* C38: a generate job holds its result and is done when its emails are handed
\* to a dispatcher, and from then on nothing the dispatch does changes the
\* job's status, result or email counters.
C38_BackgroundDispatchIsSilent ==
  /\ [](\A j \in JobIds :
          job[j].type = "generate" /\ (pc[j] = "mailing" \/ locals[j].mode # "none")
            => job[j].status = "done" /\ job[j].result.kind = "generate")
  /\ [][\A j \in JobIds :
          job[j].type = "generate" /\ pc[j] \in {"mailing", "finished"}
            => Outcome(job'[j]) = Outcome(job[j])]_vars

\* the background dispatch of a generate job has settled
C38_Witness ==
  \E j \in jobs :
    /\ job[j].type = "generate" /\ pc[j] = "finished"
    /\ locals[j].emailQueue # {}
    /\ job[j].status = "done" /\ job[j].result.kind = "generate"
    /\ job[j].emailSent = 0 /\ job[j].emailFailed = 0


\* everything one job owns: the fields of its object, the position and the
\* locals of its runner, the promises of its pause signal
Owned(j) ==
  <<job[j], pc[j], cont[j], idx[j], awaiting[j], settled[j], rowRcpt[j], locals[j]>>

\* C34: each job has exactly one runner, started by the request that creates
\* the job and never started again (a runner that has begun does not return to
\* its start, one that has ended stays ended); and in any interleaving of two
\* jobs a step changes what at most one job owns: a pause, a resume, a progress
\* step or the completion of one job leaves every field of the other unchanged,
\* and a request that names one job changes the fields of no other.
C34_JobsAreIsolated ==
  /\ [][\A j \in JobIds :
          /\ (pc[j] = "none" /\ pc'[j] # "none") <=> (j \notin jobs /\ j \in jobs')
          /\ pc[j] = "none" /\ pc'[j] # "none" =>
               pc'[j] = "loop" /\ idx'[j] = 0 /\ resp'.op = "create" /\ resp'.id = j
          /\ pc[j] # "none" => pc'[j] # "none" /\ job'[j].type = job[j].type
          /\ pc[j] = "finished" => pc'[j] = "finished"]_vars
  /\ [][\A j \in JobIds, k \in JobIds :
          j # k /\ Owned(j)' # Owned(j) => Owned(k)' = Owned(k)]_vars
  /\ [][\A k \in JobIds :
          resp' # resp /\ resp'.id # k => job'[k] = job[k]]_vars

\* a paused job blocked at its checkpoint beside a job that ran to its end
C34_Witness ==
  \E j \in jobs, k \in jobs :
    /\ j # k
    /\ job[j].status = "paused" /\ pc[j] = "blocked"
    /\ job[k].status = "done" /\ job[k].current = job[k].total /\ pc[k] = "finished"

\* C36: in a send job emailSent + emailFailed never exceeds emailTotal, and once
\* the job is done the counters of the status snapshot are the result's sent
\* and failed and add up to emailTotal, whatever the transport did.
C36_CountersAgreeWithResult ==
  \A j \in JobIds : pc[j] # "none" /\ job[j].type = "send" =>
    /\ job[j].emailSent + job[j].emailFailed <= job[j].emailTotal
    /\ job[j].status = "done" =>
         /\ job[j].emailSent = job[j].result.sent
         /\ job[j].emailFailed = job[j].result.failed
         /\ job[j].emailSent + job[j].emailFailed = job[j].emailTotal

\* C33: no failure of a mail transport propagates into the runner: whatever
\* fails inside a dispatcher (its temporary directory, an attachment file, the
\* script, a send), the call the runner awaits ends by returning a value that
\* counts the failures; its promise is never rejected.
C33_TransportFailureIsReturned ==
  sendPc \in {"returned", "rejected"} =>
    /\ sendPc = "returned"
    /\ result.sent + result.failed = Len(queue)

\* the prefix resolveRowValues computes for a present entry: the configured one
\* outside a group, the list prefix of its place among the present entries of
\* its group inside one
ComputedPrefix(i) ==
  IF mapping[i].group = <<>> THEN mapping[i].prefix
  ELSE buildListPrefix(mapping[i].prefix, Cardinality(PresentBefore(i)),
                       Cardinality(PresentBefore(i)) + 1 + Cardinality(PresentAfter(i)))

\* C32: a present entry (its cell has data and is no suppressed duplicate)
\* resolves to its computed prefix followed by the sanitized text of the cell,
\* which is the cell without quotes and without leading or trailing blanks; an
\* entry outside a group has its configured prefix; an absent entry resolves
\* to the empty text, without its prefix.
C32_PrefixThenTrimmedValue ==
  resolvePc = "returned" =>
    \A i \in 1..Len(mapping) :
      /\ Present(i) => values[KeyOf(i)] = ComputedPrefix(i) \o trim(ValueOf(i))
      /\ ~Present(i) => values[KeyOf(i)] = <<>>

\* the keys the renderer knows for a row, one entry of the row's data holds a
\* token of key k, and holds a "$"
KnownKeys ==
  {trim(renderData[n].key) : n \in 1..Len(renderData)}
    \cup {trim(placeholders[n]) : n \in 1..Len(placeholders)}
HoldsToken(n, k) ==
  \E i \in 1..Len(renderData[n].val) : tokenEnd(renderData[n].val, i, k) # 0
HoldsDollar(n) ==
  \E i \in 1..Len(renderData[n].val) : renderData[n].val[i] = "$"

\* the markup in which every token of a known key stands replaced by the
\* escaped value of the key (the empty text for a key without data) and
\* nothing else is changed: the tokens are those of str itself, from place i on
RECURSIVE Filled(_, _)
Filled(str, i) ==
  IF i > Len(str) THEN <<>>
  ELSE LET hits == {k \in KnownKeys : tokenEnd(str, i, k) # 0}
           k == CHOOSE k \in hits : TRUE
           with == {n \in 1..Len(renderData) : trim(renderData[n].key) = k}
       IN  IF hits = {} THEN <<str[i]>> \o Filled(str, i + 1)
           ELSE (IF with = {} THEN <<>>
                 ELSE escapeXml(renderData[CHOOSE n \in with : TRUE].val))
                  \o Filled(str, tokenEnd(str, i, k))

\* C31: every token of a resolved key in the sanitized template is replaced by
\* exactly the escaped value of the key: & < > " escaped, every other character
\* of the value, "$" and braces included, as it stands (for rows in which no
\* value holds the token of a known key).
C31_TokenReplacedByEscapedValue ==
  (/\ renderPc = "rendered"
   /\ \A n \in 1..Len(renderData), k \in KnownKeys : ~HoldsToken(n, k))
    => rendered.xml = preserveTextSpaces(Filled(sanitizeTemplateBuffer(template), 1))

\* C39: the text inserted for a placeholder is not read as a placeholder: when
\* the value of one key holds the token of another known key, the document
\* shows the value as it stands at the place of the first key's token, whatever
\* the other key's value is (for rows without "$" in their values).
C39_InsertedTextIsLiteral ==
  (/\ renderPc = "rendered"
   /\ \A n \in 1..Len(renderData) : ~HoldsDollar(n)
   /\ \E n \in 1..Len(renderData), k \in KnownKeys :
        k # trim(renderData[n].key) /\ HoldsToken(n, k))
    => rendered.xml = preserveTextSpaces(Filled(sanitizeTemplateBuffer(template), 1))

====
